---- MODULE Spec2Model ----
(***************************************************************************)
(* Model of tableauquerybuilderpublic.py: the schedule store and trigger   *)
(* engine of TableauApp (save_schedule, remove_schedule, startup replay),  *)
(* the QueryWorker thread, and the request paths that can see a 401.       *)
(*                                                                         *)
(* Texts typed by the user are sequences of one-character strings, so that *)
(* str.strip() and str.replace(' ', '_') are computed and not assumed.     *)
(* A Python dict is a record; a key that is absent from the dict is absent *)
(* from the record's DOMAIN.  A Python tuple and a Python list are told    *)
(* apart by a tag, because json.dump turns the one into the other.         *)
(* The scheduler is the BackgroundScheduler of lines 99-103, whose job     *)
(* store is the file jobs.sqlite: its jobs outlive the process.            *)
(***************************************************************************)
EXTENDS Integers, Sequences, FiniteSets, TLC

VARIABLES
    schedules,   \* self.schedules, the in-memory schedule list
    file,        \* ~/.tableau_query_tool/saved_schedules.json
    jobs,        \* the jobs of self.scheduler (persisted in jobs.sqlite)
    pc,          \* position of the UI thread inside save_schedule / remove_schedule
    cur,         \* local variables of the running handler (schedule, name)
    status,      \* what schedule_status shows
    ui,          \* live selection: datasource, dimensions, measure rows, filter widgets
    lastSave,    \* history: per name, the schedule built by the latest save_schedule
    loadLog,     \* history: outcome of the latest load_schedules_from_disk
    runs,        \* number of process starts so far
    worker,      \* QueryWorker: position of run(), is_cancelled, signals emitted
    req,         \* one request path: attempts, sign-ins, responses seen
    fire,        \* the runs of run_scheduled_query_standalone on the scheduler's threads
    disk,        \* the files of the output directories
    auth,        \* self.auth_token and the sign_in calls under way
    sq,          \* the interactive query, the saved queries and their file
    ds           \* one call of fetch_available_datasources: page, list so far, result

vars == <<schedules, file, jobs, pc, cur, status, ui, lastSave, loadLog, runs, worker, req,
          fire, disk, auth, sq, ds>>

otherVars == <<fire, disk, auth, sq, ds>>

schedVars == <<schedules, file, jobs, pc, cur, status, lastSave, loadLog, runs>>

----------------------------------------------------------------------------
(* Bounds *)

MaxRuns == 2          \* process starts explored
MaxFileEntries == 2   \* entries of a hand-written saved_schedules.json
MaxFilters == 1       \* filter widgets in the live selection
MaxRecords == 2       \* records in the answer to a scheduled query
MaxFires == 2         \* scheduled runs started
MaxSignIns == 3       \* sign_in calls
MaxQueries == 2       \* payloads sent by the UI thread
MaxWorkers == 3       \* QueryWorker objects constructed one after the other

----------------------------------------------------------------------------
(* Texts *)

RECURSIVE lstrip(_)
lstrip(s) == IF s # <<>> /\ Head(s) = " " THEN lstrip(Tail(s)) ELSE s

RECURSIVE rstrip(_)
rstrip(s) == IF s # <<>> /\ s[Len(s)] = " " THEN rstrip(SubSeq(s, 1, Len(s) - 1)) ELSE s

\* str.strip()
strip(s) == rstrip(lstrip(s))

\* name.replace(' ', '_')
replace_spaces(s) == [i \in 1..Len(s) |-> IF s[i] = " " THEN "_" ELSE s[i]]

\* f"query_{name.replace(' ', '_')}"
job_id(name) == <<"query_">> \o replace_spaces(name)

\* what the user can type into schedule_name_input
NameTexts == { <<" ">>, <<"a", " ", "b">>, <<"a", "_", "b">>, <<" ", "c">> }

Names == { strip(t) : t \in NameTexts } \ { <<>> }

PatternTexts == { <<>>, <<"{name}">> }

\* output_dir_input; os.path.isdir holds for the directories that exist
DirTexts == { "/out", "/missing" }

isdir(d) == d \in { "/out", "/readonly" }

\* the directories the process may create files in
writable(d) == d \in { "/out" }

----------------------------------------------------------------------------
(* The schedule form (lines 333-356, 454-478) *)

Frequencies == { "Daily", "Weekly", "Monthly" }

\* schedule_hour 0..23 and schedule_minute 0..59; the values explored
Hours == { 8 }
Minutes == { 0 }

\* day_of_week.currentIndex() 0..6 and day_of_month.value() 1..31; the values explored
DayIndexes == { 6 }
MonthDays == { 31 }

days == <<"Monday", "Tuesday", "Wednesday", "Thursday", "Friday", "Saturday", "Sunday">>

----------------------------------------------------------------------------
(* The live selection *)

\* None
None == "None"

\* self.all_datasources, as (name, luid) pairs
all_datasources == { <<"Sales", "ds1">> }

\* lines 790-795
datasource_name_of(luid) ==
    IF \E d \in all_datasources : d[2] = luid
    THEN (CHOOSE d \in all_datasources : d[2] = luid)[1]
    ELSE "Unknown"

\* StringFilterWidget.get_filter_dict: a fresh dict with a fresh list of the selected items
get_filter_dict(w) ==
    [ filterType |-> "SET",
      field      |-> [ fieldCaption |-> w.field_name ],
      exclude    |-> FALSE,
      values     |-> w.selected ]

\* a stored filter that is the widget itself: it reads the widget whenever it is read
serialize_filter_by_reference(sel, i) == [ widget |-> i ]

\* copy.deepcopy(filter_widget.get_filter_dict()) of the i-th widget of active_filters
serialize_filter(sel, i) == get_filter_dict(sel.active_filters[i])

\* what a stored filter denotes in a state whose live selection is sel
filter_value(f, sel) ==
    IF "widget" \in DOMAIN f
    THEN IF f.widget \in DOMAIN sel.active_filters
         THEN get_filter_dict(sel.active_filters[f.widget])
         ELSE [ deleted |-> TRUE ]
    ELSE f

\* the selection right after initUI: no datasource, nothing selected, one measure row
InitUi ==
    [ current_datasource_luid |-> None,
      dimensions     |-> <<>>,
      measure_rows   |-> << [ field |-> "Select Measure", agg |-> "SUM" ] >>,
      active_filters |-> <<>> ]

----------------------------------------------------------------------------
(* save_schedule: the schedule entry *)

\* lines 797-807
schedule_detail(frequency, dow, dom) ==
    IF frequency = "Weekly" THEN [ text |-> "every", day_name |-> days[dow + 1], day |-> 0 ]
    ELSE IF frequency = "Monthly" THEN [ text |-> "on day of each month", day_name |-> "", day |-> dom ]
    ELSE [ text |-> "every day", day_name |-> "", day |-> 0 ]

\* "measures": the rows whose dropdown text differs from "Select Field", as tuples
schedule_measures(sel) ==
    LET keep == SelectSeq(sel.measure_rows, LAMBDA r : r.field # "Select Field")
    IN  [ i \in 1..Len(keep) |-> [ py |-> "tuple", field |-> keep[i].field, agg |-> keep[i].agg ] ]

\* lines 812-835
make_schedule(name, output_pattern, output_dir, frequency, hour, minute, dow, dom, sel) ==
    LET base ==
          [ name            |-> name,
            output_pattern  |-> output_pattern,
            output_dir      |-> output_dir,
            frequency       |-> frequency,
            hour            |-> hour,
            minute          |-> minute,
            detail          |-> schedule_detail(frequency, dow, dom),
            datasource_luid |-> sel.current_datasource_luid,
            datasource_name |-> datasource_name_of(sel.current_datasource_luid),
            dimensions      |-> sel.dimensions,
            measures        |-> schedule_measures(sel),
            filters         |-> [ i \in 1..Len(sel.active_filters) |-> serialize_filter(sel, i) ] ]
    IN  IF frequency = "Weekly" THEN base @@ ("day_of_week" :> dow)
        ELSE IF frequency = "Monthly" THEN base @@ ("day_of_month" :> dom)
        ELSE base

----------------------------------------------------------------------------
(* The scheduler (apscheduler BackgroundScheduler with the jobs.sqlite store) *)

\* CronTrigger accepts hour 0-23, minute 0-59, day_of_week 0-6, day 1-31 and
\* raises ValueError on anything else
valid_cron(t) ==
    /\ t.hour \in 0..23
    /\ t.minute \in 0..59
    /\ ("day_of_week" \in DOMAIN t => t.day_of_week \in 0..6)
    /\ ("day" \in DOMAIN t => t.day \in 1..31)

\* scheduler.get_job(job_id) is truthy
get_job(js, id) == \E j \in js : j.id = id

\* scheduler.remove_job(job_id)
remove_job(js, id) == { j \in js : j.id # id }

\* add_job that stores the job next to the one that has its id
add_job_keeping_existing(js, job) == js \cup { job }

\* scheduler.add_job(..., id=job_id, replace_existing=True)
add_job(js, job) == { j \in js : j.id # job.id } \cup { job }

\* pickling of the job's kwargs into the job store: a snapshot of the dict
pickle(schedule, sel) ==
    [ schedule EXCEPT !.filters = [ i \in 1..Len(@) |-> filter_value(@[i], sel) ] ]

\* the cron fields save_schedule passes for each frequency (lines 866-900)
save_trigger(schedule) ==
    IF schedule.frequency = "Daily"
    THEN [ hour |-> schedule.hour, minute |-> schedule.minute ]
    ELSE IF schedule.frequency = "Weekly"
    THEN [ day_of_week |-> schedule.day_of_week, hour |-> schedule.hour, minute |-> schedule.minute ]
    ELSE [ day |-> schedule.day_of_month, hour |-> schedule.hour, minute |-> schedule.minute ]

\* the job save_schedule adds (lines 862-900)
save_job(schedule, sel) ==
    [ id      |-> job_id(schedule.name),
      name    |-> schedule.name,
      trigger |-> save_trigger(schedule),
      kwargs  |-> pickle(schedule, sel) ]

----------------------------------------------------------------------------
(* saved_schedules.json *)

\* json.dump of one entry: a tuple is written as an array
json_entry(e) ==
    IF "measures" \in DOMAIN e
    THEN [ e EXCEPT !.measures = [ i \in 1..Len(@) |-> [ @[i] EXCEPT !.py = "list" ] ] ]
    ELSE e

\* json.dump(self.schedules, f, indent=2)
json_dump(list) == [ i \in 1..Len(list) |-> json_entry(list[i]) ]

AbsentFile == [ state |-> "absent", entries |-> <<>> ]

\* a file whose write stopped part way: json.load raises on it
CorruptFile == [ state |-> "corrupt", entries |-> <<>> ]

written_file(list) == [ state |-> "ok", entries |-> json_dump(list) ]

----------------------------------------------------------------------------
(* Startup replay *)

\* an entry of the file that is a JSON object
is_dict(e) == "not_a_dict" \notin DOMAIN e

\* schedule["name"], ["frequency"], ["hour"], ["minute"] raise KeyError when absent
has_required_keys(e) == { "name", "frequency", "hour", "minute" } \subseteq DOMAIN e

\* a replay that passes the index of the weekday as the day of the month
recreate_trigger_weekday_as_day(e) ==
    IF e.frequency = "Daily"
    THEN [ add |-> TRUE, trigger |-> [ hour |-> e.hour, minute |-> e.minute ] ]
    ELSE IF e.frequency = "Weekly" /\ "day_of_week" \in DOMAIN e
    THEN [ add |-> TRUE,
           trigger |-> [ day |-> e.day_of_week + 1, hour |-> e.hour, minute |-> e.minute ] ]
    ELSE IF e.frequency = "Monthly" /\ "day_of_month" \in DOMAIN e
    THEN [ add |-> TRUE,
           trigger |-> [ day |-> e.day_of_month, hour |-> e.hour, minute |-> e.minute ] ]
    ELSE [ add |-> FALSE, trigger |-> [ hour |-> 0, minute |-> 0 ] ]

\* the cron fields recreate_schedule_job passes, or none (lines 966-1001)
recreate_trigger(e) ==
    IF e.frequency = "Daily"
    THEN [ add |-> TRUE, trigger |-> [ hour |-> e.hour, minute |-> e.minute ] ]
    ELSE IF e.frequency = "Weekly" /\ "day_of_week" \in DOMAIN e
    THEN [ add |-> TRUE,
           trigger |-> [ day_of_week |-> e.day_of_week, hour |-> e.hour, minute |-> e.minute ] ]
    ELSE IF e.frequency = "Monthly" /\ "day_of_month" \in DOMAIN e
    THEN [ add |-> TRUE,
           trigger |-> [ day |-> e.day_of_month, hour |-> e.hour, minute |-> e.minute ] ]
    ELSE [ add |-> FALSE, trigger |-> [ hour |-> 0, minute |-> 0 ] ]

\* recreate_schedule_job whose except clause is missing: every failure propagates
recreate_schedule_job_unguarded(js, e) ==
    IF ~ is_dict(e) \/ ~ has_required_keys(e)
    THEN [ jobs |-> js, raised |-> TRUE ]
    ELSE LET r == recreate_trigger(e)
         IN  IF ~ r.add THEN [ jobs |-> js, raised |-> FALSE ]
             ELSE IF ~ valid_cron(r.trigger) THEN [ jobs |-> js, raised |-> TRUE ]
             ELSE [ jobs   |-> add_job(js, [ id |-> job_id(e.name), name |-> e.name,
                                             trigger |-> r.trigger, kwargs |-> e ]),
                    raised |-> FALSE ]

\* recreate_schedule_job (lines 955-1007): raised tells whether an exception leaves it.
\* A KeyError or the ValueError of add_job is caught at line 1004; for an entry that
\* is no dict the handler itself raises at line 1005 (schedule.get).
recreate_schedule_job(js, e) ==
    IF ~ is_dict(e)
    THEN [ jobs |-> js, raised |-> TRUE ]
    ELSE IF ~ has_required_keys(e)
    THEN [ jobs |-> js, raised |-> FALSE ]
    ELSE LET r == recreate_trigger(e)
         IN  IF r.add /\ valid_cron(r.trigger)
             THEN [ jobs   |-> add_job(js, [ id |-> job_id(e.name), name |-> e.name,
                                             trigger |-> r.trigger, kwargs |-> e ]),
                    raised |-> FALSE ]
             ELSE [ jobs |-> js, raised |-> FALSE ]

\* the loop of lines 943-944 from entry i on: it stops at the first exception
RECURSIVE replay(_, _, _)
replay(js, list, i) ==
    IF i > Len(list) THEN [ jobs |-> js, raised |-> FALSE ]
    ELSE LET r == recreate_schedule_job(js, list[i])
         IN  IF r.raised THEN r ELSE replay(r.jobs, list, i + 1)

\* update_schedule_display (lines 527-611) raises on an entry without name,
\* frequency, hour or minute, and on an entry that is no dict
display_raises(list) ==
    \E i \in 1..Len(list) : ~ is_dict(list[i]) \/ ~ has_required_keys(list[i])

\* load_schedules_from_disk (lines 930-953)
load_schedules_from_disk(f, js) ==
    IF f.state = "absent"
    THEN [ schedules |-> <<>>, jobs |-> js, caught |-> FALSE ]
    ELSE IF f.state = "corrupt"
    THEN [ schedules |-> <<>>, jobs |-> js, caught |-> TRUE ]
    ELSE LET r == replay(js, f.entries, 1)
         IN  IF r.raised \/ display_raises(f.entries)
             THEN [ schedules |-> <<>>, jobs |-> r.jobs, caught |-> TRUE ]
             ELSE [ schedules |-> f.entries, jobs |-> r.jobs, caught |-> FALSE ]

----------------------------------------------------------------------------
(* save_schedule (lines 765-911), in the steps at which the scheduler and the
   file are touched.  The handler runs on the UI thread: while pc is not
   "idle" no other handler runs. *)

NoSchedule == [ name |-> <<>> ]

\* loadLog once a handler has run after the start
NoLoad == [ done |-> FALSE, caught |-> FALSE ]

\* the handler's local variables when no handler runs
NoCall == [ name |-> <<>>, schedule |-> NoSchedule ]

NoSave == [ n \in Names |-> [ count |-> 0, schedule |-> NoSchedule ] ]

\* index of the first entry of the list with this name, 0 when there is none
first_index(list, name) ==
    IF \E i \in 1..Len(list) : list[i].name = name
    THEN CHOOSE i \in 1..Len(list) :
            /\ list[i].name = name
            /\ \A k \in 1..(i - 1) : list[k].name # name
    ELSE 0

\* lines 767-860: validation, the entry, and the replace-or-append of the list
save_schedule(name_text, pattern_text, output_dir, frequency, hour, minute, dow, dom) ==
    /\ pc = "idle"
    /\ loadLog' = NoLoad
    /\ LET name    == strip(name_text)
           pattern == strip(pattern_text)
       IN  IF name = <<>>
           THEN /\ status' = "Error: Please enter a query name"
                /\ UNCHANGED <<schedules, file, jobs, pc, cur, ui, lastSave, runs>>
           ELSE IF pattern = <<>>
           THEN /\ status' = "Error: Please enter an output file pattern"
                /\ UNCHANGED <<schedules, file, jobs, pc, cur, ui, lastSave, runs>>
           ELSE IF output_dir = "" \/ ~ isdir(output_dir)
           THEN /\ status' = "Error: Please enter a valid output directory"
                /\ UNCHANGED <<schedules, file, jobs, pc, cur, ui, lastSave, runs>>
           ELSE LET schedule == make_schedule(name, pattern, output_dir, frequency,
                                              hour, minute, dow, dom, ui)
                    i == first_index(schedules, name)
                IN  /\ schedules' = IF i > 0 THEN [ schedules EXCEPT ![i] = schedule ]
                                             ELSE Append(schedules, schedule)
                    /\ status' = IF i > 0 THEN "Updated schedule" ELSE "Added schedule"
                    /\ pc' = IF i > 0 THEN "save_remove_old" ELSE "save_add_job"
                    /\ cur' = [ name |-> name, schedule |-> schedule ]
                    /\ lastSave' = [ lastSave EXCEPT ![name] =
                                       [ count |-> IF @.count < 2 THEN @.count + 1 ELSE 2,
                                         schedule |-> schedule ] ]
                    /\ UNCHANGED <<file, jobs, ui, runs>>

\* lines 848-854: the old job is removed when the scheduler has it
SaveRemoveOld ==
    /\ pc = "save_remove_old"
    /\ jobs' = IF get_job(jobs, job_id(cur.name)) THEN remove_job(jobs, job_id(cur.name)) ELSE jobs
    /\ pc' = "save_add_job"
    /\ UNCHANGED <<schedules, file, cur, status, ui, lastSave, loadLog, runs>>

\* lines 862-900
SaveAddJob ==
    /\ pc = "save_add_job"
    /\ jobs' = add_job(jobs, save_job(cur.schedule, ui))
    /\ pc' = "save_persist"
    /\ UNCHANGED <<schedules, file, cur, status, ui, lastSave, loadLog, runs>>

\* lines 902-906: save_schedules_to_disk, then update_schedule_display
SavePersist ==
    /\ pc = "save_persist"
    /\ file' = written_file(schedules)
    /\ status' = "Scheduled Tasks"
    /\ pc' = "idle"
    /\ cur' = NoCall
    /\ UNCHANGED <<schedules, jobs, ui, lastSave, loadLog, runs>>

----------------------------------------------------------------------------
(* remove_schedule (lines 1021-1064) *)

Replies == { "Yes", "No" }

\* a removal that does not wait for the answer
confirmed_whatever_the_reply(reply) == TRUE

\* line 1041: reply != QMessageBox.Yes returns
confirmed(reply) == reply = "Yes"

\* a remove_job that leaves the job in the store
remove_job_leaving_it(js, id) == js

\* lines 1051-1053: the job is removed when the scheduler has it
remove_schedule_job(js, id) == IF get_job(js, id) THEN remove_job(js, id) ELSE js

\* the list without its i-th entry: self.schedules.pop(i)
pop(list, i) == SubSeq(list, 1, i - 1) \o SubSeq(list, i + 1, Len(list))

\* lines 1023-1047 and 1064
remove_schedule(name_text, reply) ==
    /\ pc = "idle"
    /\ loadLog' = NoLoad
    /\ LET name == strip(name_text)
           i    == first_index(schedules, name)
       IN  IF name = <<>>
           THEN /\ status' = "Error: Please enter a query name to remove"
                /\ UNCHANGED <<schedules, file, jobs, pc, cur, ui, lastSave, runs>>
           ELSE IF ~ confirmed(reply)
           THEN UNCHANGED <<schedules, file, jobs, pc, cur, status, ui, lastSave, runs>>
           ELSE IF i = 0
           THEN /\ status' = "No schedule found with name"
                /\ UNCHANGED <<schedules, file, jobs, pc, cur, ui, lastSave, runs>>
           ELSE /\ schedules' = pop(schedules, i)
                /\ pc' = "remove_job"
                /\ cur' = [ name |-> name, schedule |-> NoSchedule ]
                /\ lastSave' = [ lastSave EXCEPT ![name] = [ count |-> 0, schedule |-> NoSchedule ] ]
                /\ UNCHANGED <<file, jobs, status, ui, runs>>

\* lines 1049-1055
RemoveJob ==
    /\ pc = "remove_job"
    /\ jobs' = remove_schedule_job(jobs, job_id(cur.name))
    /\ pc' = "remove_persist"
    /\ UNCHANGED <<schedules, file, cur, status, ui, lastSave, loadLog, runs>>

\* lines 1057-1062
RemovePersist ==
    /\ pc = "remove_persist"
    /\ file' = written_file(schedules)
    /\ status' = IF schedules = <<>> THEN "No scheduled tasks" ELSE "Scheduled Tasks"
    /\ pc' = "idle"
    /\ cur' = NoCall
    /\ UNCHANGED <<schedules, jobs, ui, lastSave, loadLog, runs>>

----------------------------------------------------------------------------
(* Process start: TableauApp.__init__ (lines 83-120).  The scheduler starts
   with the jobs its store holds, then the schedules are loaded and replayed. *)

Startup ==
    LET r == load_schedules_from_disk(file, jobs)
    IN  /\ schedules' = r.schedules
        /\ jobs' = r.jobs
        /\ loadLog' = [ done |-> TRUE, caught |-> r.caught ]
        /\ status' = IF file.state # "ok" \/ r.caught THEN ""
                      ELSE IF r.schedules = <<>> THEN "No scheduled tasks"
                      ELSE "Scheduled Tasks"
        /\ ui' = InitUi
        /\ lastSave' = NoSave
        /\ cur' = NoCall
        /\ pc' = "idle"
        /\ runs' = runs + 1
        /\ UNCHANGED file

\* the user closes the application and starts it again
Restart ==
    /\ pc = "idle"
    /\ runs < MaxRuns
    /\ Startup

----------------------------------------------------------------------------
(* Specification of the schedule store: a first start without files, then
   save_schedule, remove_schedule and restarts, every call succeeding *)

\* no QueryWorker has been constructed
WorkerInit == [ pc |-> "none", n |-> 0, is_cancelled |-> FALSE, status |-> 0, signals |-> <<>> ]

\* no request is under way
ReqInit == [ path |-> "none", pc |-> "done", attempt |-> 0, log |-> <<>>, body |-> "", result_area |-> "" ]

\* no scheduled run is under way
FireInit == <<>>

\* the output directories hold no file
DiskInit == <<>>

\* no token yet, no sign_in under way; tokens are numbered as the server issues them
AuthInit == [ token |-> 0, issued |-> 0, calls |-> <<>>, seen |-> 0 ]

\* fetch_available_datasources has not been called
DsInit ==
    [ pc |-> "idle", site_id |-> "site", server |-> <<>>, page_num |-> 1, odd |-> TRUE,
      all_datasources |-> <<>>, returned |-> [ none |-> TRUE ] ]

\* no payload has been sent by the UI thread, no saved query is being applied
SqInit ==
    [ sent |-> <<>>, result_area |-> "", saved_queries |-> <<>>,
      queries_file |-> AbsentFile, saved_queries_loaded |-> FALSE,
      query_to_apply |-> [ none |-> TRUE ], applied |-> [ none |-> TRUE ] ]

Init ==
    /\ schedules = <<>>
    /\ file = AbsentFile
    /\ jobs = {}
    /\ pc = "idle"
    /\ cur = NoCall
    /\ status = ""
    /\ ui = InitUi
    /\ lastSave = NoSave
    /\ loadLog = [ done |-> TRUE, caught |-> FALSE ]
    /\ runs = 1
    /\ worker = WorkerInit
    /\ req = ReqInit
    /\ fire = FireInit
    /\ disk = DiskInit
    /\ auth = AuthInit
    /\ ds = DsInit
    /\ sq = SqInit

SaveSchedule ==
    /\ \E t \in NameTexts, p \in PatternTexts, d \in DirTexts, f \in Frequencies,
          h \in Hours, m \in Minutes, dow \in DayIndexes, dom \in MonthDays :
            save_schedule(t, p, d, f, h, m, dow, dom)
    /\ UNCHANGED <<worker, req, otherVars>>

SaveRemoveOldStep == SaveRemoveOld /\ UNCHANGED <<worker, req, otherVars>>

SaveAddJobStep == SaveAddJob /\ UNCHANGED <<worker, req, otherVars>>

SavePersistStep == SavePersist /\ UNCHANGED <<worker, req, otherVars>>

RemoveSchedule ==
    /\ \E t \in NameTexts, reply \in Replies : remove_schedule(t, reply)
    /\ UNCHANGED <<worker, req, otherVars>>

RemoveJobStep == RemoveJob /\ UNCHANGED <<worker, req, otherVars>>

RemovePersistStep == RemovePersist /\ UNCHANGED <<worker, req, otherVars>>

RestartApp == Restart /\ UNCHANGED <<worker, req, otherVars>>

Next ==
    \/ SaveSchedule
    \/ SaveRemoveOldStep
    \/ SaveAddJobStep
    \/ SavePersistStep
    \/ RemoveSchedule
    \/ RemoveJobStep
    \/ RemovePersistStep
    \/ RestartApp

Spec == Init /\ [][Next]_vars

----------------------------------------------------------------------------
(* The same handlers when a call into the scheduler or the write of the file
   raises: the except clauses of lines 853, 908, 927 and 1054 *)

\* lines 850-854: get_job or remove_job raises, the handler goes on
SaveRemoveOldRaises ==
    /\ pc = "save_remove_old"
    /\ pc' = "save_add_job"
    /\ UNCHANGED <<schedules, file, jobs, cur, status, ui, lastSave, loadLog, runs>>

\* lines 866-900 and 908-911: add_job raises, the rest of the handler is skipped
SaveAddJobRaises ==
    /\ pc = "save_add_job"
    /\ status' = "Error creating schedule"
    /\ pc' = "idle"
    /\ cur' = NoCall
    /\ UNCHANGED <<schedules, file, jobs, ui, lastSave, loadLog, runs>>

\* lines 916-928: the write fails before the file is opened, or part way
write_fails(f) == { f, CorruptFile }

SavePersistFails ==
    /\ pc = "save_persist"
    /\ file' \in write_fails(file)
    /\ status' = "Scheduled Tasks"
    /\ pc' = "idle"
    /\ cur' = NoCall
    /\ UNCHANGED <<schedules, jobs, ui, lastSave, loadLog, runs>>

\* lines 1051-1055
RemoveJobRaises ==
    /\ pc = "remove_job"
    /\ pc' = "remove_persist"
    /\ UNCHANGED <<schedules, file, jobs, cur, status, ui, lastSave, loadLog, runs>>

RemovePersistFails ==
    /\ pc = "remove_persist"
    /\ file' \in write_fails(file)
    /\ status' = IF schedules = <<>> THEN "No scheduled tasks" ELSE "Scheduled Tasks"
    /\ pc' = "idle"
    /\ cur' = NoCall
    /\ UNCHANGED <<schedules, jobs, ui, lastSave, loadLog, runs>>

FaultNameTexts == { <<" ", "c">>, <<"a", " ", "b">> }

SaveScheduleF ==
    /\ \E t \in FaultNameTexts, f \in Frequencies, h \in Hours, m \in Minutes,
          dow \in DayIndexes, dom \in MonthDays :
            save_schedule(t, <<"{name}">>, "/out", f, h, m, dow, dom)
    /\ UNCHANGED <<worker, req, otherVars>>

RemoveScheduleF ==
    /\ \E t \in FaultNameTexts, reply \in Replies : remove_schedule(t, reply)
    /\ UNCHANGED <<worker, req, otherVars>>

SaveRemoveOldRaisesStep == SaveRemoveOldRaises /\ UNCHANGED <<worker, req, otherVars>>

SaveAddJobRaisesStep == SaveAddJobRaises /\ UNCHANGED <<worker, req, otherVars>>

SavePersistFailsStep == SavePersistFails /\ UNCHANGED <<worker, req, otherVars>>

RemoveJobRaisesStep == RemoveJobRaises /\ UNCHANGED <<worker, req, otherVars>>

RemovePersistFailsStep == RemovePersistFails /\ UNCHANGED <<worker, req, otherVars>>

NextFault ==
    \/ SaveScheduleF
    \/ SaveRemoveOldStep
    \/ SaveRemoveOldRaisesStep
    \/ SaveAddJobStep
    \/ SaveAddJobRaisesStep
    \/ SavePersistStep
    \/ SavePersistFailsStep
    \/ RemoveScheduleF
    \/ RemoveJobStep
    \/ RemoveJobRaisesStep
    \/ RemovePersistStep
    \/ RemovePersistFailsStep
    \/ RestartApp

SpecFault == Init /\ [][NextFault]_vars

----------------------------------------------------------------------------
(* Startup on a saved_schedules.json that was written by hand *)

drop_key(e, k) == [ x \in DOMAIN e \ { k } |-> e[x] ]

file_entry(name, frequency) ==
    json_entry(make_schedule(name, <<"{name}">>, "/out", frequency, 8, 0, 6, 31, InitUi))

ValidEntries ==
    { file_entry(<<"c">>, "Daily"),
      file_entry(<<"a", " ", "b">>, "Weekly"),
      file_entry(<<"a", "_", "b">>, "Monthly") }

\* entries whose cadence fields are missing or out of range
BadCadenceEntries ==
    { drop_key(file_entry(<<"w">>, "Weekly"), "day_of_week"),
      drop_key(file_entry(<<"h">>, "Daily"), "hour"),
      drop_key(file_entry(<<"f">>, "Daily"), "frequency"),
      [ file_entry(<<"x">>, "Daily") EXCEPT !.hour = 99 ],
      [ file_entry(<<"m">>, "Monthly") EXCEPT !.day_of_month = 0 ] }

\* an entry that is a JSON string
NotADict == [ not_a_dict |-> TRUE ]

FileEntries == ValidEntries \cup BadCadenceEntries \cup { NotADict }

RECURSIVE seqs_up_to(_, _)
seqs_up_to(S, n) ==
    IF n = 0 THEN { <<>> }
    ELSE LET shorter == seqs_up_to(S, n - 1)
         IN  shorter \cup { Append(q, e) : q \in shorter, e \in S }

InitLoad ==
    /\ schedules = <<>>
    /\ file \in { [ state |-> "ok", entries |-> q ] : q \in seqs_up_to(FileEntries, MaxFileEntries) }
    /\ jobs = {}
    /\ pc = "off"
    /\ cur = NoCall
    /\ status = ""
    /\ ui = InitUi
    /\ lastSave = NoSave
    /\ loadLog = NoLoad
    /\ runs = 0
    /\ worker = WorkerInit
    /\ req = ReqInit
    /\ fire = FireInit
    /\ disk = DiskInit
    /\ auth = AuthInit
    /\ ds = DsInit
    /\ sq = SqInit

StartApp ==
    /\ pc = "off"
    /\ Startup
    /\ UNCHANGED <<worker, req, otherVars>>

NextLoad == StartApp

SpecLoad == InitLoad /\ [][NextLoad]_vars

----------------------------------------------------------------------------
(* Claims about the schedule store *)

jobs_with_id(id) == { j \in jobs : j.id = id }

entries_named(list, n) == { i \in 1..Len(list) : list[i].name = n }

\* C1: after save_schedule calls that use a name more than once, the list holds
\* exactly one entry with that name, the entry is the one of the latest save,
\* and the scheduler holds exactly one job with the name's job id, carrying the
\* cadence of the latest save.
C1_LatestSaveWins ==
    pc = "idle" =>
        \A n \in Names :
            lastSave[n].count >= 2 =>
                /\ Cardinality(entries_named(schedules, n)) = 1
                /\ \A i \in entries_named(schedules, n) : schedules[i] = lastSave[n].schedule
                /\ Cardinality(jobs_with_id(job_id(n))) = 1
                /\ \A j \in jobs_with_id(job_id(n)) :
                       j.trigger = save_trigger(lastSave[n].schedule)

\* C5: in every state of a save_schedule call that replaces an existing
\* schedule, the scheduler holds at most one job with the schedule's job id.
C5_AtMostOneJobWhileReplacing ==
    (pc \in { "save_remove_old", "save_add_job", "save_persist" } /\ status = "Updated schedule")
        => Cardinality(jobs_with_id(job_id(cur.name))) <= 1

\* the state between the removal of the old job and the add of the new one
C5_Witness ==
    /\ pc = "save_add_job"
    /\ status = "Updated schedule"
    /\ jobs_with_id(job_id(cur.name)) = {}
    /\ jobs # {}

C7_DeclinedRemoveChangesNothing ==
    [][ (\E t \in NameTexts, reply \in Replies :
            /\ remove_schedule(t, reply)
            /\ \/ reply # "Yes"
               \/ strip(t) = <<>>
               \/ entries_named(schedules, strip(t)) = {})
        => (UNCHANGED <<schedules, file, jobs>> /\ pc' = "idle") ]_vars

\* a removal was asked for a name that is not in the non-empty list
C7_Witness ==
    /\ pc = "idle"
    /\ status = "No schedule found with name"
    /\ schedules # <<>>
    /\ jobs # {}

----------------------------------------------------------------------------
(* The live selection changing under a saved schedule *)

DimensionItems == <<"Region", "Year">>
MeasureItems == { "Select Measure", "Sales" }
FilterFields == { "Region" }
FilterValues == { "East" }
DatasourceLuids == { "ds1" }

\* dimensions_list.selectedItems() after item d is clicked, in list order
toggle_dimension(sel, d) ==
    LET was == { sel.dimensions[i] : i \in 1..Len(sel.dimensions) }
        now == IF d \in was THEN was \ { d } ELSE was \cup { d }
    IN  SelectSeq(DimensionItems, LAMBDA x : x \in now)

\* clear_selections (lines 1633-1648)
clear_selections(sel) ==
    [ sel EXCEPT !.dimensions = <<>>,
                 !.active_filters = <<>>,
                 !.measure_rows = [ i \in 1..Len(@) |-> [ @[i] EXCEPT !.field = "Select Measure" ] ] ]

\* on_datasource_selected (lines 1585-1590)
on_datasource_selected ==
    /\ pc = "idle"
    /\ \E luid \in DatasourceLuids :
           ui' = clear_selections([ ui EXCEPT !.current_datasource_luid = luid ])
    /\ UNCHANGED <<schedVars, worker, req, otherVars>>

\* the user clicks an item of dimensions_list
select_dimension ==
    /\ pc = "idle"
    /\ \E d \in { DimensionItems[i] : i \in 1..Len(DimensionItems) } :
           ui' = [ ui EXCEPT !.dimensions = toggle_dimension(ui, d) ]
    /\ UNCHANGED <<schedVars, worker, req, otherVars>>

\* the user picks an item of the dropdown of the first measure row
select_measure ==
    /\ pc = "idle"
    /\ \E f \in MeasureItems : ui' = [ ui EXCEPT !.measure_rows[1].field = f ]
    /\ UNCHANGED <<schedVars, worker, req, otherVars>>

\* add_filter (lines 1912-1938)
add_filter ==
    /\ pc = "idle"
    /\ Len(ui.active_filters) < MaxFilters
    /\ \E f \in FilterFields :
           ui' = [ ui EXCEPT !.active_filters = Append(@, [ field_name |-> f, selected |-> <<>> ]) ]
    /\ UNCHANGED <<schedVars, worker, req, otherVars>>

\* the user clicks a value of the values_list of a filter widget
select_filter_value ==
    /\ pc = "idle"
    /\ \E i \in 1..Len(ui.active_filters), v \in FilterValues :
           ui' = [ ui EXCEPT !.active_filters[i].selected =
                       IF @ = <<>> THEN <<v>> ELSE <<>> ]
    /\ UNCHANGED <<schedVars, worker, req, otherVars>>

\* remove_filter (lines 1432-1437)
remove_filter ==
    /\ pc = "idle"
    /\ \E i \in 1..Len(ui.active_filters) :
           ui' = [ ui EXCEPT !.active_filters = pop(@, i) ]
    /\ UNCHANGED <<schedVars, worker, req, otherVars>>

\* reset_selections (lines 2193-2229)
reset_selections ==
    /\ pc = "idle"
    /\ ui' = [ clear_selections(ui) EXCEPT !.measure_rows = SubSeq(@, 1, 1) ]
    /\ UNCHANGED <<schedVars, worker, req, otherVars>>

SaveScheduleUi ==
    /\ \E f \in { "Daily", "Weekly" } :
           save_schedule(<<"c">>, <<"{name}">>, "/out", f, 8, 0, 6, 31)
    /\ UNCHANGED <<worker, req, otherVars>>

NextUi ==
    \/ SaveScheduleUi
    \/ SaveRemoveOldStep
    \/ SaveAddJobStep
    \/ SavePersistStep
    \/ on_datasource_selected
    \/ select_dimension
    \/ select_measure
    \/ add_filter
    \/ select_filter_value
    \/ remove_filter
    \/ reset_selections

SpecUi == Init /\ [][NextUi]_vars

----------------------------------------------------------------------------
(* QueryWorker (lines 19-68): run() on the worker thread, cancel() on the UI
   thread, interleaved at the reads and writes of is_cancelled *)

ResponseStatuses == { 200, 401, 500 }

\* __init__ (lines 23-29)
QueryWorkerInit ==
    /\ worker.pc \in { "none", "done" }
    /\ worker.n < MaxWorkers
    /\ worker' = [ pc |-> "constructed", n |-> worker.n + 1, is_cancelled |-> FALSE,
                   status |-> 0, signals |-> <<>> ]
    /\ UNCHANGED <<schedVars, ui, req, otherVars>>

\* start(): run() builds the payload (lines 32-47)
QueryWorkerStart ==
    /\ worker.pc = "constructed"
    /\ worker' = [ worker EXCEPT !.pc = "check_before" ]
    /\ UNCHANGED <<schedVars, ui, req, otherVars>>

\* lines 49-51
QueryWorkerCheckBefore ==
    /\ worker.pc = "check_before"
    /\ worker' = [ worker EXCEPT !.pc = IF worker.is_cancelled THEN "done" ELSE "post" ]
    /\ UNCHANGED <<schedVars, ui, req, otherVars>>

\* line 53: the request answers, or raises
QueryWorkerPost ==
    /\ worker.pc = "post"
    /\ \/ \E st \in ResponseStatuses :
              worker' = [ worker EXCEPT !.pc = "check_after", !.status = st ]
       \/ worker' = [ worker EXCEPT !.pc = "except" ]
    /\ UNCHANGED <<schedVars, ui, req, otherVars>>

\* lines 55-57
QueryWorkerCheckAfter ==
    /\ worker.pc = "check_after"
    /\ worker' = [ worker EXCEPT !.pc = IF worker.is_cancelled THEN "done" ELSE "emit" ]
    /\ UNCHANGED <<schedVars, ui, req, otherVars>>

\* the signal sent, with the value is_cancelled has when it is sent
emit(w, signal) == Append(w.signals, [ signal |-> signal, cancelled |-> w.is_cancelled ])

\* lines 59-62: response.json() may raise
QueryWorkerEmit ==
    /\ worker.pc = "emit"
    /\ IF worker.status = 200
       THEN \/ worker' = [ worker EXCEPT !.pc = "done", !.signals = emit(worker, "result_signal") ]
            \/ worker' = [ worker EXCEPT !.pc = "except" ]
       ELSE worker' = [ worker EXCEPT !.pc = "done", !.signals = emit(worker, "error_signal") ]
    /\ UNCHANGED <<schedVars, ui, req, otherVars>>

\* line 64
QueryWorkerExcept ==
    /\ worker.pc = "except"
    /\ worker' = [ worker EXCEPT !.pc = IF worker.is_cancelled THEN "done" ELSE "emit_except" ]
    /\ UNCHANGED <<schedVars, ui, req, otherVars>>

\* line 65
QueryWorkerEmitExcept ==
    /\ worker.pc = "emit_except"
    /\ worker' = [ worker EXCEPT !.pc = "done", !.signals = emit(worker, "error_signal") ]
    /\ UNCHANGED <<schedVars, ui, req, otherVars>>

\* cancel (lines 67-68): any thread may call it on a constructed worker
cancel ==
    /\ worker.pc # "none"
    /\ ~ worker.is_cancelled
    /\ worker' = [ worker EXCEPT !.is_cancelled = TRUE ]
    /\ UNCHANGED <<schedVars, ui, req, otherVars>>

NextWorker ==
    \/ QueryWorkerInit
    \/ QueryWorkerStart
    \/ QueryWorkerCheckBefore
    \/ QueryWorkerPost
    \/ QueryWorkerCheckAfter
    \/ QueryWorkerEmit
    \/ QueryWorkerExcept
    \/ QueryWorkerEmitExcept
    \/ cancel

SpecWorker == Init /\ [][NextWorker]_vars

----------------------------------------------------------------------------
(* The request paths: each sends requests.post and looks at the status code.
   req.log lists the requests of the call under way, sign-ins included. *)

\* range(3) of fetch_fields
Attempts == 3

\* the answer of a request: a status code, or 0 when requests.post raises
Answers == { 200, 401, 500, 0 }

RequestPaths ==
    { "fetch_fields", "query_data_source", "fetch_available_values",
      "run_scheduled_query_standalone" }

logged(r, op, st) == Append(r.log, [ op |-> op, status |-> st ])

\* a handler that sends requests is entered
call_request_path ==
    /\ req.pc = "done"
    /\ \E p \in RequestPaths :
           req' = [ path |-> p,
                    pc |-> IF p = "run_scheduled_query_standalone" THEN "auth" ELSE "post",
                    attempt |-> 0, log |-> <<>>, body |-> "",
                    result_area |-> IF p = "fetch_fields"
                                    THEN "Fetching fields, please wait..." ELSE "" ]
    /\ UNCHANGED <<schedVars, ui, worker, otherVars>>

\* a loop that goes round once more than range(3)
next_attempt_one_more(r) ==
    IF r.attempt + 1 <= Attempts
    THEN [ r EXCEPT !.attempt = @ + 1, !.pc = "post" ]
    ELSE [ r EXCEPT !.attempt = @ + 1, !.pc = "done",
                    !.result_area = "Failed to fetch fields after multiple attempts" ]

\* where fetch_fields goes after an attempt (lines 1508, 1572-1573)
next_attempt(r) ==
    IF r.attempt + 1 < Attempts
    THEN [ r EXCEPT !.attempt = @ + 1, !.pc = "post" ]
    ELSE [ r EXCEPT !.attempt = @ + 1, !.pc = "done",
                    !.result_area = "Failed to fetch fields after multiple attempts" ]

\* the body of a 200 answer of read-metadata: a JSON document with the fields,
\* a text that is no JSON (response.json() raises ValueError, line 1545), or a
\* JSON document with a field without fieldName (extract_fields raises KeyError,
\* caught at line 1562)
MetadataBodies == { "fields", "no JSON", "no fieldName" }

\* fetch_fields, one attempt (lines 1508-1570): a 200 whose body parses ends the
\* loop; a 200 whose body does not parse, another status or an exception goes to
\* the next attempt; a 401 calls sign_in first
fetch_fields_post ==
    /\ req.path = "fetch_fields" /\ req.pc = "post"
    /\ \E a \in Answers, b \in MetadataBodies :
           LET r == [ req EXCEPT !.log = logged(req, "post", a),
                                 !.body = IF a = 200 THEN b ELSE "" ]
           IN  IF a = 200
               THEN IF b = "fields"
                    THEN req' = [ r EXCEPT !.pc = "done",
                                           !.result_area = "Fetched fields successfully" ]
                    ELSE IF b = "no JSON"
                    THEN req' = next_attempt([ r EXCEPT !.result_area = "Error parsing JSON" ])
                    ELSE req' = next_attempt(r)
               ELSE IF a = 401
               THEN req' = [ r EXCEPT !.pc = "sign_in" ]
               ELSE IF a = 0
               THEN req' = next_attempt(r)
               ELSE req' = next_attempt([ r EXCEPT !.result_area = "Error: status" ])
    /\ UNCHANGED <<schedVars, ui, worker, otherVars>>

\* sign_in called by fetch_fields (lines 1548-1552, 1174-1214): whatever its
\* answer, an exception included (line 1562), the loop goes on
fetch_fields_sign_in ==
    /\ req.path = "fetch_fields" /\ req.pc = "sign_in"
    /\ \E a \in { 200, 401, 0 } :
           req' = next_attempt([ req EXCEPT !.log = logged(req, "sign_in", a) ])
    /\ UNCHANGED <<schedVars, ui, worker, otherVars>>

\* query_data_source (lines 2153-2171): one request, every answer ends the call
query_data_source_post ==
    /\ req.path = "query_data_source" /\ req.pc = "post"
    /\ \E a \in Answers : req' = [ req EXCEPT !.log = logged(req, "post", a), !.pc = "done" ]
    /\ UNCHANGED <<schedVars, ui, worker, otherVars>>

\* fetch_available_values (lines 2450-2500): one request; a 401 calls sign_in
fetch_available_values_post ==
    /\ req.path = "fetch_available_values" /\ req.pc = "post"
    /\ \E a \in Answers :
           req' = [ req EXCEPT !.log = logged(req, "post", a),
                               !.pc = IF a = 401 THEN "sign_in" ELSE "done" ]
    /\ UNCHANGED <<schedVars, ui, worker, otherVars>>

\* lines 2484-2491: after sign_in the call ends
fetch_available_values_sign_in ==
    /\ req.path = "fetch_available_values" /\ req.pc = "sign_in"
    /\ \E a \in { 200, 401, 0 } :
           req' = [ req EXCEPT !.log = logged(req, "sign_in", a), !.pc = "done" ]
    /\ UNCHANGED <<schedVars, ui, worker, otherVars>>

\* get_auth_token (lines 2928-2951) at the start of run_scheduled_query_standalone
\* (lines 2845-2848): without a token the call ends
get_auth_token ==
    /\ req.path = "run_scheduled_query_standalone" /\ req.pc = "auth"
    /\ \E a \in { 200, 401, 0 } :
           req' = [ req EXCEPT !.log = logged(req, "get_auth_token", a),
                               !.pc = IF a = 200 THEN "post" ELSE "done" ]
    /\ UNCHANGED <<schedVars, ui, worker, otherVars>>

\* run_scheduled_query_standalone (lines 2876-2926): one request, every answer ends the call
run_scheduled_query_standalone_post ==
    /\ req.path = "run_scheduled_query_standalone" /\ req.pc = "post"
    /\ \E a \in Answers : req' = [ req EXCEPT !.log = logged(req, "post", a), !.pc = "done" ]
    /\ UNCHANGED <<schedVars, ui, worker, otherVars>>

NextReq ==
    \/ call_request_path
    \/ fetch_fields_post
    \/ fetch_fields_sign_in
    \/ query_data_source_post
    \/ fetch_available_values_post
    \/ fetch_available_values_sign_in
    \/ get_auth_token
    \/ run_scheduled_query_standalone_post

SpecReq == Init /\ [][NextReq]_vars

----------------------------------------------------------------------------
(* run_scheduled_query_standalone (lines 2833-2926) on the threads of the
   scheduler's executor.  A run is a record of fire; its steps are the calls
   that leave the process: sign-in, query, open of the output file, and the
   write of each row. *)

\* output_pattern.format(name=, date=, time=), by token: a replacement field
\* other than name, date and time raises KeyError
format_token(tok, name) ==
    IF tok = "{name}" THEN name
    ELSE IF tok = "{date}" THEN <<"2026-11-02">>
    ELSE IF tok = "{time}" THEN <<"08-00-00">>
    ELSE <<tok>>

format_raises(pattern) == \E i \in 1..Len(pattern) : pattern[i] = "{foo}"

RECURSIVE format(_, _)
format(pattern, name) ==
    IF pattern = <<>> THEN <<>>
    ELSE format_token(Head(pattern), name) \o format(Tail(pattern), name)

\* lines 2892-2893
with_csv(filename) ==
    IF filename # <<>> /\ filename[Len(filename)] \in { ".csv", ".CSV" }
    THEN filename ELSE Append(filename, ".csv")

\* lines 2884-2896: os.path.join(output_dir, filename)
output_path(schedule) ==
    <<schedule.output_dir>> \o with_csv(format(schedule.output_pattern, schedule.name))

\* the rows run k writes for n records: the header, then one row per record
row(k, i) == [ run |-> k, row |-> i ]

export_rows(k, n) == [ i \in 1..(n + 1) |-> row(k, i - 1) ]

\* a write of one row at position pos of a file: each open file object has its
\* own position, a position beyond the end leaves a hole
Hole == [ run |-> 0, row |-> 0 ]

write_at(content, pos, r) ==
    [ i \in 1..(IF pos > Len(content) THEN pos ELSE Len(content)) |->
        IF i = pos THEN r ELSE IF i <= Len(content) THEN content[i] ELSE Hole ]

\* the except clause that lets the exception go
run_reraises == [ raised |-> TRUE, outcome |-> "Error running scheduled query" ]

\* lines 2921-2926: every exception becomes the returned message
run_except == [ raised |-> FALSE, outcome |-> "Error running scheduled query" ]

ended(r, outcome) == [ r EXCEPT !.pc = "done", !.outcome = outcome ]

excepted(r) == [ r EXCEPT !.pc = "done", !.outcome = run_except.outcome, !.raised = run_except.raised ]

\* what a path holds: nothing, or a file with its rows
NoFile == [ exists |-> FALSE, content |-> <<>> ]

file_at(d, path) ==
    IF path \in DOMAIN d THEN [ exists |-> TRUE, content |-> d[path] ] ELSE NoFile

\* the executor calls the job's function with its kwargs; a job has one run at a time
fire_start ==
    /\ Len(fire) < MaxFires
    /\ \E j \in jobs :
          /\ \A k \in 1..Len(fire) : fire[k].job = j.id => fire[k].pc = "done"
          /\ fire' = Append(fire, [ job |-> j.id, schedule |-> j.kwargs, pc |-> "auth",
                                    sent |-> <<>>, records |-> 0, path |-> <<>>, pos |-> 0,
                                    outcome |-> "", raised |-> FALSE,
                                    overlapped |-> \E k \in 1..Len(fire) : fire[k].pc # "done",
                                    had |-> NoFile ])
    /\ UNCHANGED <<schedVars, ui, worker, req, disk, auth, sq, ds>>

\* lines 2845-2848 and get_auth_token: a status other than 200 and a transport
\* error raise
fire_auth ==
    /\ \E k \in 1..Len(fire) :
          /\ fire[k].pc = "auth"
          /\ \E a \in { 200, 401, 0 } :
                fire' = [ fire EXCEPT ![k] = IF a = 200 THEN [ @ EXCEPT !.pc = "post" ]
                                             ELSE excepted(@) ]
    /\ UNCHANGED <<schedVars, ui, worker, req, disk, auth, sq, ds>>

\* lines 2857-2873: the payload of the run
fire_payload(schedule) ==
    [ datasourceLuid |-> schedule.datasource_luid,
      fields  |-> [ i \in 1..Len(schedule.dimensions) |-> [ fieldCaption |-> schedule.dimensions[i] ] ]
                  \o [ i \in 1..Len(schedule.measures) |->
                         [ fieldCaption |-> schedule.measures[i].field,
                           function |-> schedule.measures[i].agg ] ],
      filters |-> schedule.filters ]

\* lines 2876-2879 and 2916-2919: the query is sent; 200 brings 0..MaxRecords
\* records or a body that is no JSON
fire_post ==
    /\ \E k \in 1..Len(fire) :
          /\ fire[k].pc = "post"
          /\ LET r == [ fire[k] EXCEPT !.sent = Append(@, fire_payload(fire[k].schedule)) ]
             IN  \/ \E n \in 0..MaxRecords :
                       fire' = [ fire EXCEPT ![k] = [ r EXCEPT !.pc = "filename", !.records = n ] ]
                 \/ fire' = [ fire EXCEPT ![k] = excepted(r) ]
                 \/ fire' = [ fire EXCEPT ![k] = ended(r, "Query failed with status") ]
    /\ UNCHANGED <<schedVars, ui, worker, req, disk, auth, sq, ds>>

\* lines 2881-2896
fire_filename ==
    /\ \E k \in 1..Len(fire) :
          /\ fire[k].pc = "filename"
          /\ fire' = [ fire EXCEPT ![k] =
                         IF format_raises(@.schedule.output_pattern) THEN excepted(@)
                         ELSE [ @ EXCEPT !.pc = "open", !.path = output_path(fire[k].schedule),
                                          !.had = file_at(disk, output_path(fire[k].schedule)) ] ]
    /\ UNCHANGED <<schedVars, ui, worker, req, disk, auth, sq, ds>>

\* line 2899: open(output_path, 'w') creates or truncates the file, or raises
fire_open ==
    /\ \E k \in 1..Len(fire) :
          /\ fire[k].pc = "open"
          /\ \/ /\ fire' = [ fire EXCEPT ![k] = [ @ EXCEPT !.pc = "write", !.pos = 1 ] ]
                /\ disk' = (fire[k].path :> <<>>) @@ disk
             \/ /\ fire' = [ fire EXCEPT ![k] = excepted(@) ]
                /\ UNCHANGED disk
    /\ UNCHANGED <<schedVars, ui, worker, req, auth, sq, ds>>

\* lines 2900-2915: no record ends the run; otherwise the header and the rows
\* are written one by one, and a write may raise
fire_write ==
    /\ \E k \in 1..Len(fire) :
          /\ fire[k].pc = "write"
          /\ IF fire[k].records = 0
             THEN /\ fire' = [ fire EXCEPT ![k] = ended(@, "Query completed but returned no results") ]
                  /\ UNCHANGED disk
             ELSE \/ /\ disk' = [ disk EXCEPT ![fire[k].path] =
                                    write_at(@, fire[k].pos, row(k, fire[k].pos - 1)) ]
                     /\ fire' = [ fire EXCEPT ![k] =
                                    IF @.pos = @.records + 1
                                    THEN ended([ @ EXCEPT !.pos = @ + 1 ], "Query completed successfully")
                                    ELSE [ @ EXCEPT !.pos = @ + 1 ] ]
                  \/ /\ fire' = [ fire EXCEPT ![k] = excepted(@) ]
                     /\ UNCHANGED disk
    /\ UNCHANGED <<schedVars, ui, worker, req, auth, sq, ds>>

\* the schedules of the fire specification: two saved schedules
FirePatterns == { <<"{name}">>, <<"report", ".csv">>, <<"{foo}">> }

FireSelections == { [ InitUi EXCEPT !.current_datasource_luid = l ] : l \in { None, "ds1" } }

fire_schedules(p1, p2, sel) ==
    << make_schedule(<<"c">>, p1, "/out", "Daily", 8, 0, 6, 31, sel),
       make_schedule(<<"a", " ", "b">>, p2, "/out", "Daily", 8, 0, 6, 31, sel) >>

\* a file that was in the output directory before
OldFile == (<<"/out", "c", ".csv">> :> << [ run |-> 9, row |-> 0 ] >>)

InitFire ==
    /\ \E p1 \in FirePatterns, p2 \in FirePatterns, sel \in FireSelections :
          /\ schedules = fire_schedules(p1, p2, sel)
          /\ ui = sel
    /\ file = written_file(schedules)
    /\ jobs = { save_job(schedules[i], ui) : i \in 1..Len(schedules) }
    /\ pc = "idle"
    /\ cur = NoCall
    /\ status = "Scheduled Tasks"
    /\ lastSave = NoSave
    /\ loadLog = NoLoad
    /\ runs = 1
    /\ worker = WorkerInit
    /\ req = ReqInit
    /\ fire = FireInit
    /\ disk \in { DiskInit, OldFile }
    /\ auth = AuthInit
    /\ ds = DsInit
    /\ sq = SqInit

NextFire ==
    \/ fire_start
    \/ fire_auth
    \/ fire_post
    \/ fire_filename
    \/ fire_open
    \/ fire_write

SpecFire == InitFire /\ [][NextFire]_vars

----------------------------------------------------------------------------
(* sign_in (lines 1174-1214), called by the 30-minute timer (lines 90-92) and
   by the handlers that saw a 401.  A call is a record of auth.calls; calls
   are interleaved at the request and at the assignment of self.auth_token. *)

SignInCallers == { "reauth_timer", "fetch_fields" }

\* the answers of the sign-in request: a token, a body that is no XML, a body
\* without credentials, another status, a transport error
SignInAnswers == { "token", "ParseError", "no credentials", "status", "raise" }

\* a failed sign_in that drops the cached token
sign_in_failed_clears(token) == 0

\* lines 1211-1214: a sign_in that fails leaves self.auth_token alone
sign_in_failed(token) == token

sign_in_call ==
    /\ Len(auth.calls) < MaxSignIns
    /\ \E who \in SignInCallers :
          auth' = [ auth EXCEPT !.calls = Append(@, [ who |-> who, pc |-> "post", got |-> 0 ]) ]
    /\ UNCHANGED <<schedVars, ui, worker, req, fire, disk, sq, ds>>

\* line 1189 to line 1195
sign_in_post ==
    /\ \E k \in 1..Len(auth.calls), a \in SignInAnswers :
          /\ auth.calls[k].pc = "post"
          /\ auth' = IF a = "token"
                     THEN [ auth EXCEPT !.issued = @ + 1,
                                        !.calls[k] = [ @ EXCEPT !.pc = "assign", !.got = auth.issued + 1 ] ]
                     ELSE [ auth EXCEPT !.token = sign_in_failed(@),
                                        !.calls[k] = [ @ EXCEPT !.pc = "failed" ] ]
    /\ UNCHANGED <<schedVars, ui, worker, req, fire, disk, sq, ds>>

\* line 1196: self.auth_token = credentials.attrib['token']
sign_in_assign ==
    /\ \E k \in 1..Len(auth.calls) :
          /\ auth.calls[k].pc = "assign"
          /\ auth' = [ auth EXCEPT !.token = auth.calls[k].got,
                                   !.calls[k] = [ @ EXCEPT !.pc = "done" ] ]
    /\ UNCHANGED <<schedVars, ui, worker, req, fire, disk, sq, ds>>

\* a handler reads self.auth_token for its headers (lines 1510, 2137)
read_auth_token ==
    /\ auth.seen # auth.token
    /\ auth' = [ auth EXCEPT !.seen = auth.token ]
    /\ UNCHANGED <<schedVars, ui, worker, req, fire, disk, sq, ds>>

NextAuth ==
    \/ sign_in_call
    \/ sign_in_post
    \/ sign_in_assign
    \/ read_auth_token

SpecAuth == Init /\ [][NextAuth]_vars

----------------------------------------------------------------------------
(* save_schedule on every kind of form content, valid or not *)

ValidationDirs == { "/out", "/missing", "/readonly" }

SaveScheduleV ==
    /\ \E t \in { <<" ">>, <<" ", "c">> }, p \in PatternTexts, d \in ValidationDirs,
          f \in Frequencies :
            save_schedule(t, p, d, f, 8, 0, 6, 31)
    /\ UNCHANGED <<worker, req, otherVars>>

RemoveScheduleV ==
    /\ \E reply \in Replies : remove_schedule(<<" ", "c">>, reply)
    /\ UNCHANGED <<worker, req, otherVars>>

NextValid ==
    \/ SaveScheduleV
    \/ SaveRemoveOldStep
    \/ SaveAddJobStep
    \/ SavePersistStep
    \/ RemoveScheduleV
    \/ RemoveJobStep
    \/ RemovePersistStep

SpecValid == Init /\ [][NextValid]_vars

----------------------------------------------------------------------------
(* The paths of the UI thread that build a payload: query_data_source (lines
   2098-2171) and test_scheduled_query (lines 680-763) with execute_query
   (lines 486-525).  sq.sent lists what was sent, with the dimensions that
   were selected and the messages shown by the call. *)

\* [:10] of line 2105
DimensionLimit == 10

\* the items of dimensions_list after fetch_fields on a datasource with 11 dimensions
QueryDimensionItems == <<"d01", "d02", "d03", "d04", "d05", "d06", "d07", "d08", "d09", "d10", "d11">>

\* the numbers of dimensions selected that are explored
DimensionCounts == { 0, 1, 10, 11 }

\* the user selects the first n items of dimensions_list
select_dimensions ==
    /\ pc = "idle"
    /\ \E n \in DimensionCounts : ui' = [ ui EXCEPT !.dimensions = SubSeq(QueryDimensionItems, 1, n) ]
    /\ UNCHANGED <<schedVars, worker, req, otherVars>>

first_n(q, n) == SubSeq(q, 1, IF Len(q) < n THEN Len(q) ELSE n)

dimension_fields(dimensions) == [ i \in 1..Len(dimensions) |-> [ fieldCaption |-> dimensions[i] ] ]

\* lines 2109-2117: the rows whose dropdown does not show "Select Measure"
query_measures(sel) ==
    LET keep == SelectSeq(sel.measure_rows, LAMBDA r : r.field # "Select Measure")
    IN  [ i \in 1..Len(keep) |-> [ fieldCaption |-> keep[i].field, function |-> keep[i].agg ] ]

\* lines 2104-2148
query_payload(sel) ==
    [ datasourceLuid |-> sel.current_datasource_luid,
      fields  |-> dimension_fields(first_n(sel.dimensions, DimensionLimit)) \o query_measures(sel),
      filters |-> [ i \in 1..Len(sel.active_filters) |-> get_filter_dict(sel.active_filters[i]) ] ]

\* query_data_source (lines 2098-2171)
query_data_source ==
    /\ pc = "idle"
    /\ Len(sq.sent) < MaxQueries
    /\ IF ui.current_datasource_luid \in { None, "" }
       THEN sq' = [ sq EXCEPT !.result_area = "Please select a data source first" ]
       ELSE sq' = [ sq EXCEPT !.result_area = "Query running, please wait...",
                              !.sent = Append(@, [ path |-> "query_data_source",
                                                   selected |-> ui.dimensions,
                                                   shown |-> { "Query running, please wait..." },
                                                   payload |-> query_payload(ui) ]) ]
    /\ UNCHANGED <<schedVars, ui, worker, req, fire, disk, auth, ds>>

\* test_scheduled_query (lines 680-721) with a valid form: the schedule is
\* built from the selection and execute_query (lines 486-517) sends it
test_scheduled_query ==
    /\ pc = "idle"
    /\ Len(sq.sent) < MaxQueries
    /\ LET schedule == make_schedule(<<"c">>, <<"{name}">>, "/out", "Daily", 8, 0, 6, 31, ui)
       IN  sq' = [ sq EXCEPT !.sent = Append(@, [ path |-> "test_scheduled_query",
                                                  selected |-> ui.dimensions,
                                                  shown |-> { "Testing scheduled query" },
                                                  payload |-> fire_payload(schedule) ]) ]
    /\ UNCHANGED <<schedVars, ui, worker, req, fire, disk, auth, ds>>

NextQuery ==
    \/ on_datasource_selected
    \/ select_dimensions
    \/ select_measure
    \/ query_data_source
    \/ test_scheduled_query

SpecQuery == Init /\ [][NextQuery]_vars

----------------------------------------------------------------------------
(* Filter widgets and the saved query: the widgets' get_filter_dict (lines
   2515-2529, 2612-2646, 2788-2828), save_query (lines 1650-1712) and
   apply_saved_query_after_fetch (lines 1819-1909) with
   configure_filter_widget (lines 1940-2044).  A number of a dict is written
   [ float |-> repr ] or [ int |-> n ] and a text in its place [ text |-> s ];
   a QDate is [ y, m, d ] and an invalid QDate InvalidDate.  The saved query
   travels through json.dump and json.load, which keep floats, integers,
   texts, lists and objects as they are. *)

\* the number of entries of "filters" in a saved query that is explored
MaxSavedFilters == 2

\* QDate.currentDate() and QDate.currentDate().addMonths(-1) (lines 2688-2715)
currentDate == [ y |-> 2026, m |-> 11, d |-> 2 ]
monthAgo == [ y |-> 2026, m |-> 10, d |-> 2 ]

\* a date the user picked
pickedDate == [ y |-> 2024, m |-> 1, d |-> 15 ]

InvalidDate == [ y |-> 0, m |-> 0, d |-> 0 ]

\* QDate.toString(Qt.ISODate)
toString(date) ==
    IF date = currentDate THEN "2026-11-02"
    ELSE IF date = monthAgo THEN "2026-10-02"
    ELSE IF date = pickedDate THEN "2024-01-15"
    ELSE ""

\* QDate.fromString(text, Qt.ISODate): an invalid date for a text that is no ISO date
fromString(text) ==
    IF text = "2026-11-02" THEN currentDate
    ELSE IF text = "2026-10-02" THEN monthAgo
    ELSE IF text = "2024-01-15" THEN pickedDate
    ELSE InvalidDate

\* QDateEdit.setDate ignores an invalid date
setDate(old, date) == IF date = InvalidDate THEN old ELSE date

\* float(text) raises ValueError on a text that is no number; a QLineEdit with a
\* QDoubleValidator holds such a text while a number is being typed
float_raises(text) == text \in { "-" }

\* float(text) for the texts that are numbers
float(text) ==
    IF text = "5" THEN [ float |-> "5.0" ]
    ELSE IF text = "0" THEN [ float |-> "0.0" ]
    ELSE [ float |-> text ]

\* str(value) of lines 2003-2013
str(value) == IF "float" \in DOMAIN value THEN value.float ELSE value.text

\* the items of the combo boxes (lines 2540, 2547, 2672, 2742, 2748)
QuantitativeFilterTypes == <<"RANGE", "MIN", "MAX", "ONLY_NULL", "ONLY_NON_NULL">>
function_combo_items == <<"SUM", "AVG", "MIN", "MAX", "COUNT">>
period_type_combo_items == <<"DAYS", "WEEKS", "MONTHS", "QUARTERS", "YEARS">>
date_range_type_combo_items == <<"LAST", "CURRENT", "NEXT", "LASTN", "NEXTN", "TODATE">>

\* the elements of a sequence
items_of(s) == { s[i] : i \in 1..Len(s) }

\* the loops of lines 1982-1992 and 2023-2027: the combo moves only to an item it has
select_text(old, combo_items, text) == IF text \in items_of(combo_items) THEN text ELSE old

\* the index of a quantitativeFilterType among the items, 0-based; -1 when it is none of them
quant_index(text) ==
    IF text \in items_of(QuantitativeFilterTypes)
    THEN (CHOOSE i \in 1..Len(QuantitativeFilterTypes) : QuantitativeFilterTypes[i] = text) - 1
    ELSE -1

\* the widgets as their constructors leave them (lines 2349-2398, 2531-2610, 2649-2786)
StringFilterWidget(field_name) ==
    [ kind |-> "String", field_name |-> field_name, values_list |-> <<>>, selected |-> <<>> ]

NumberFilterWidget(field_name) ==
    [ kind |-> "Number", field_name |-> field_name, filter_type_combo |-> 0,
      function_combo |-> "SUM", min_input |-> "", max_input |-> "",
      min_only_input |-> "", max_only_input |-> "" ]

DateFilterWidget(field_name) ==
    [ kind |-> "Date", field_name |-> field_name, filter_type_combo |-> 0,
      quant_type_combo |-> 0, from_date |-> monthAgo, to_date |-> currentDate,
      min_only_date |-> monthAgo, max_only_date |-> currentDate,
      period_type_combo |-> "DAYS", date_range_type_combo |-> "LAST", range_n_input |-> 30 ]

\* a bound whose input is empty: a key with None (never written by the code), or no key
unset_bound_null(key) == key :> [ null |-> TRUE ]

unset_bound(key) == <<>>

\* NumberFilterWidget.get_filter_dict (lines 2612-2646); the dict, or what it raises
number_get_filter_dict(w) ==
    LET base == [ filterType |-> "QUANTITATIVE_NUMERICAL",
                  field |-> [ fieldCaption |-> w.field_name, function |-> w.function_combo ],
                  quantitativeFilterType |-> QuantitativeFilterTypes[w.filter_type_combo + 1] ]
        min == IF w.filter_type_combo = 0 THEN w.min_input
               ELSE IF w.filter_type_combo = 1 THEN w.min_only_input ELSE ""
        max == IF w.filter_type_combo = 0 THEN w.max_input
               ELSE IF w.filter_type_combo = 2 THEN w.max_only_input ELSE ""
    IN  IF (min # "" /\ float_raises(min)) \/ (max # "" /\ float_raises(max))
        THEN [ raised |-> "ValueError" ]
        ELSE base @@ (IF min # "" THEN "min" :> float(min) ELSE unset_bound("min"))
                  @@ (IF max # "" THEN "max" :> float(max) ELSE unset_bound("max"))

\* DateFilterWidget.get_filter_dict (lines 2788-2828)
date_get_filter_dict(w) ==
    IF w.filter_type_combo = 0
    THEN [ filterType |-> "QUANTITATIVE_DATE",
           field |-> [ fieldCaption |-> w.field_name ],
           quantitativeFilterType |-> QuantitativeFilterTypes[w.quant_type_combo + 1] ]
         @@ (IF w.quant_type_combo = 0
             THEN [ minDate |-> toString(w.from_date), maxDate |-> toString(w.to_date) ]
             ELSE IF w.quant_type_combo = 1 THEN [ minDate |-> toString(w.min_only_date) ]
             ELSE IF w.quant_type_combo = 2 THEN [ maxDate |-> toString(w.max_only_date) ]
             ELSE <<>>)
    ELSE [ filterType |-> "DATE",
           field |-> [ fieldCaption |-> w.field_name ],
           periodType |-> w.period_type_combo,
           dateRangeType |-> w.date_range_type_combo ]
         @@ (IF w.date_range_type_combo \in { "LASTN", "NEXTN" }
             THEN [ rangeN |-> [ int |-> w.range_n_input ] ] ELSE <<>>)

\* filter_widget.get_filter_dict() of a widget of any of the three classes
widget_get_filter_dict(w) ==
    IF w.kind = "Number" THEN number_get_filter_dict(w)
    ELSE IF w.kind = "Date" THEN date_get_filter_dict(w)
    ELSE get_filter_dict(w)

\* the values of the field on the server, in sorted order
ServerValues == <<"East", "West">>

\* sorted(list(unique_values)) of line 2468
sorted(values) == SelectSeq(ServerValues, LAMBDA v : v \in values)

\* what the server answers to the request of fetch_available_values
FetchAnswers ==
    { [ status_code |-> 200, values |-> vs ] : vs \in SUBSET items_of(ServerValues) }
        \cup { [ status_code |-> 401, values |-> {} ], [ status_code |-> 500, values |-> {} ] }

\* StringFilterWidget.fetch_available_values with values_to_select set (lines 2400-2513)
fetch_available_values(w, values_to_select, answer) ==
    IF answer.status_code = 200 /\ answer.values # {}
    THEN [ w EXCEPT !.values_list = sorted(answer.values),
                    !.selected = SelectSeq(sorted(answer.values),
                                           LAMBDA v : v \in items_of(values_to_select)) ]
    ELSE [ w EXCEPT !.values_list = << "No values found or error occurred" >>,
                    !.selected = <<>> ]

\* a value of a saved entry that is a text where the code wants a number or an object
is_text(value) == "text" \in DOMAIN value

\* configure_filter_widget on a DateFilterWidget (lines 1945-1996); setValue raises
\* on a rangeN that is no integer, and the handler of lines 2040-2044 ends the call
configure_date(w, filter_dict) ==
    LET quant_type == IF "quantitativeFilterType" \in DOMAIN filter_dict
                      THEN filter_dict.quantitativeFilterType ELSE ""
        has_min == "minDate" \in DOMAIN filter_dict
        has_max == "maxDate" \in DOMAIN filter_dict
    IN  IF filter_dict.filterType = "QUANTITATIVE_DATE"
        THEN LET w0 == [ w EXCEPT !.filter_type_combo = 0 ]
             IN  IF quant_type = "RANGE"
                 THEN [ w0 EXCEPT !.quant_type_combo = 0,
                                  !.from_date = IF has_min
                                                THEN setDate(@, fromString(filter_dict.minDate))
                                                ELSE @,
                                  !.to_date = IF has_max
                                              THEN setDate(@, fromString(filter_dict.maxDate))
                                              ELSE @ ]
                 ELSE IF quant_type = "MIN"
                 THEN [ w0 EXCEPT !.quant_type_combo = 1,
                                  !.min_only_date = IF has_min
                                                    THEN setDate(@, fromString(filter_dict.minDate))
                                                    ELSE @ ]
                 ELSE IF quant_type = "MAX"
                 THEN [ w0 EXCEPT !.quant_type_combo = 2,
                                  !.max_only_date = IF has_max
                                                    THEN setDate(@, fromString(filter_dict.maxDate))
                                                    ELSE @ ]
                 ELSE IF quant_type \in { "ONLY_NULL", "ONLY_NON_NULL" }
                 THEN [ w0 EXCEPT !.quant_type_combo = quant_index(quant_type) ]
                 ELSE w0
        ELSE [ w EXCEPT !.filter_type_combo = 1,
                        !.period_type_combo =
                            select_text(@, period_type_combo_items,
                                        IF "periodType" \in DOMAIN filter_dict
                                        THEN filter_dict.periodType ELSE "DAYS"),
                        !.date_range_type_combo =
                            select_text(@, date_range_type_combo_items,
                                        IF "dateRangeType" \in DOMAIN filter_dict
                                        THEN filter_dict.dateRangeType ELSE "LAST"),
                        !.range_n_input =
                            IF "rangeN" \in DOMAIN filter_dict /\ ~ is_text(filter_dict.rangeN)
                            THEN filter_dict.rangeN.int ELSE @ ]

\* configure_filter_widget on a NumberFilterWidget (lines 1998-2027)
configure_number(w, filter_dict) ==
    LET quant_type == IF "quantitativeFilterType" \in DOMAIN filter_dict
                      THEN filter_dict.quantitativeFilterType ELSE ""
        has_min == "min" \in DOMAIN filter_dict
        has_max == "max" \in DOMAIN filter_dict
        w1 == IF quant_type = "RANGE"
              THEN [ w EXCEPT !.filter_type_combo = 0,
                              !.min_input = IF has_min THEN str(filter_dict.min) ELSE @,
                              !.max_input = IF has_max THEN str(filter_dict.max) ELSE @ ]
              ELSE IF quant_type = "MIN"
              THEN [ w EXCEPT !.filter_type_combo = 1,
                              !.min_only_input = IF has_min THEN str(filter_dict.min) ELSE @ ]
              ELSE IF quant_type = "MAX"
              THEN [ w EXCEPT !.filter_type_combo = 2,
                              !.max_only_input = IF has_max THEN str(filter_dict.max) ELSE @ ]
              ELSE IF quant_type \in { "ONLY_NULL", "ONLY_NON_NULL" }
              THEN [ w EXCEPT !.filter_type_combo = quant_index(quant_type) ]
              ELSE w
    IN  IF "function" \in DOMAIN filter_dict.field
        THEN [ w1 EXCEPT !.function_combo =
                             select_text(@, function_combo_items, filter_dict.field.function) ]
        ELSE w1

\* configure_filter_widget on a StringFilterWidget (lines 2029-2038)
configure_string(w, filter_dict, answer) ==
    IF "values" \in DOMAIN filter_dict
    THEN fetch_available_values(w, filter_dict.values, answer)
    ELSE w

\* configure_filter_widget (lines 1940-2044): it returns in every case
configure_filter_widget(w, filter_dict, answer) ==
    IF w.kind = "Date" THEN configure_date(w, filter_dict)
    ELSE IF w.kind = "Number" THEN configure_number(w, filter_dict)
    ELSE configure_string(w, filter_dict, answer)

\* the entry makes lines 1866-1867 raise: it is no object, or its "field" is none
entry_raises(filter_dict) ==
    \/ ~ is_dict(filter_dict)
    \/ ("field" \in DOMAIN filter_dict /\ is_text(filter_dict.field))

\* field_name of lines 1867
entry_field_name(filter_dict) ==
    IF "field" \in DOMAIN filter_dict /\ "fieldCaption" \in DOMAIN filter_dict.field
    THEN filter_dict.field.fieldCaption ELSE ""

\* filter_type of line 1873
entry_filter_type(filter_dict) ==
    IF "filterType" \in DOMAIN filter_dict THEN filter_dict.filterType ELSE ""

\* the entry gets a widget (lines 1866-1887)
entry_creates(filter_dict) ==
    /\ ~ entry_raises(filter_dict)
    /\ entry_field_name(filter_dict) # ""
    /\ entry_filter_type(filter_dict) \in { "QUANTITATIVE_DATE", "DATE", "QUANTITATIVE_NUMERICAL", "SET" }

\* the widget of lines 1876-1884, configured by line 1896
recreate_widget(filter_dict, answer) ==
    LET field_name == entry_field_name(filter_dict)
        filter_type == entry_filter_type(filter_dict)
        filter_widget == IF filter_type \in { "QUANTITATIVE_DATE", "DATE" }
                         THEN DateFilterWidget(field_name)
                         ELSE IF filter_type = "QUANTITATIVE_NUMERICAL"
                         THEN NumberFilterWidget(field_name)
                         ELSE StringFilterWidget(field_name)
    IN  configure_filter_widget(filter_widget, filter_dict, answer)

\* a raise inside the loop ends the entry only (lines 1899-1902)
entry_except_aborts(filters, i) == i

entry_except(filters, i) == i + 1

\* the loop of lines 1864-1902 from entry i on, answers[i] being what the server
\* answers while entry i is configured
RECURSIVE recreate_filters(_, _, _)
recreate_filters(filters, answers, i) ==
    IF i > Len(filters) THEN <<>>
    ELSE IF entry_raises(filters[i])
    THEN IF entry_except(filters, i) = i + 1
         THEN recreate_filters(filters, answers, i + 1)
         ELSE <<>>
    ELSE IF entry_creates(filters[i])
    THEN << recreate_widget(filters[i], answers[i]) >> \o recreate_filters(filters, answers, i + 1)
    ELSE recreate_filters(filters, answers, i + 1)

\* an entry raised and the raise left the loop
recreate_aborted(filters) ==
    \E i \in 1..Len(filters) : entry_raises(filters[i]) /\ entry_except(filters, i) # i + 1

\* the widgets a user can have brought about on the Filters tab, one of each class
StringWidgetStates ==
    { [ StringFilterWidget("Region") EXCEPT !.values_list = ServerValues, !.selected = sorted(vs) ] :
          vs \in SUBSET items_of(ServerValues) }

NumberWidgetStates ==
    { [ NumberFilterWidget("Sales") EXCEPT !.filter_type_combo = t, !.function_combo = f,
                                           !.min_input = a, !.max_input = b,
                                           !.min_only_input = c, !.max_only_input = d ] :
          t \in 0..4, f \in items_of(function_combo_items),
          a \in { "", "5" }, b \in { "", "1.5" }, c \in { "", "0" }, d \in { "", "5.0" } }

DateWidgetStates ==
    { [ DateFilterWidget("Order Date") EXCEPT !.filter_type_combo = t, !.quant_type_combo = q,
                                              !.from_date = a, !.min_only_date = pickedDate,
                                              !.max_only_date = pickedDate,
                                              !.period_type_combo = p,
                                              !.date_range_type_combo = r,
                                              !.range_n_input = n ] :
          t \in 0..1, q \in 0..4, a \in { monthAgo, pickedDate },
          p \in items_of(period_type_combo_items),
          r \in items_of(date_range_type_combo_items), n \in { 30, 7 } }

FilterWidgetStates == StringWidgetStates \cup NumberWidgetStates \cup DateWidgetStates

\* entries of "filters" in saved_queries.json: three that the widgets wrote and
\* entries that were written or changed by hand
SavedFilterEntries ==
    { get_filter_dict([ field_name |-> "Region", selected |-> << "East" >> ]),
      number_get_filter_dict([ NumberFilterWidget("Sales") EXCEPT !.min_input = "5" ]),
      date_get_filter_dict([ DateFilterWidget("Order Date") EXCEPT !.filter_type_combo = 1,
                                                                   !.date_range_type_combo = "LASTN",
                                                                   !.range_n_input = 7 ]),
      [ filterType |-> "TOP", field |-> [ fieldCaption |-> "Region" ] ],
      [ filterType |-> "SET", values |-> << "East" >> ],
      [ filterType |-> "SET", field |-> [ text |-> "Region" ], values |-> << "East" >> ],
      [ filterType |-> "DATE", field |-> [ fieldCaption |-> "Order Date" ],
        periodType |-> "WEEKS", dateRangeType |-> "NEXTN", rangeN |-> [ text |-> "seven" ] ],
      NotADict }

\* the queries of saved_queries.json at start
SavedQueriesOnDisk ==
    { [ name |-> <<"q">>, datasource_name |-> "Sales", datasource_luid |-> "ds1",
        dimensions |-> <<>>, measures |-> <<>>, filters |-> fs ] :
          fs \in UNION { [ 1..n -> SavedFilterEntries ] : n \in 0..MaxSavedFilters } }

NoQuery == [ none |-> TRUE ]

\* the comparison of line 1691 that never finds the name
same_name_never(a, b) == FALSE

\* existing["name"] == query_name of line 1691
same_name(a, b) == a = b

\* the index of the first saved query with the name, 0 when there is none (lines 1690-1691)
existing_index(list, name) ==
    IF \E i \in 1..Len(list) : same_name(list[i].name, name)
    THEN CHOOSE i \in 1..Len(list) :
             /\ same_name(list[i].name, name)
             /\ \A k \in 1..(i - 1) : ~ same_name(list[k].name, name)
    ELSE 0

\* save_queries_to_disk (lines 2067-2082): saved_queries.json after the dump
save_queries_to_disk(list) == written_file(list)

\* save_query (lines 1650-1712): the name typed into the dialog, whether the dialog
\* was accepted, and the reply to "Confirm Overwrite"; a get_filter_dict that
\* raises at line 1681 ends the call.  The second between apply_saved_query and
\* its timer is not explored.
save_query_as(name_text, ok, reply) ==
    /\ sq.query_to_apply = NoQuery
    /\ LET query_name == strip(name_text)
           filters == [ i \in 1..Len(ui.active_filters) |->
                           widget_get_filter_dict(ui.active_filters[i]) ]
           query == [ name |-> query_name,
                      datasource_name |-> datasource_name_of(ui.current_datasource_luid),
                      datasource_luid |-> ui.current_datasource_luid,
                      dimensions |-> ui.dimensions,
                      measures |-> schedule_measures(ui),
                      filters |-> filters ]
           i == existing_index(sq.saved_queries, query_name)
       IN  IF ui.current_datasource_luid = None
           THEN sq' = [ sq EXCEPT !.result_area =
                            "Please select a data source before saving the query" ]
           ELSE IF ~ ok \/ query_name = <<>>
           THEN sq' = sq
           ELSE IF \E k \in 1..Len(filters) : "raised" \in DOMAIN filters[k]
           THEN sq' = sq
           ELSE IF i # 0
           THEN IF reply = "Yes"
                THEN sq' = [ sq EXCEPT !.saved_queries[i] = query,
                                       !.result_area = "Query updated" ]
                ELSE sq' = sq
           ELSE sq' = [ sq EXCEPT !.saved_queries = Append(@, query),
                                  !.result_area = "Query saved",
                                  !.queries_file =
                                      save_queries_to_disk(Append(sq.saved_queries, query)) ]
    /\ UNCHANGED <<schedVars, ui, worker, req, fire, disk, auth, ds>>

\* save_query under the name "q", with the overwrite confirmed
save_query == save_query_as(<<"q">>, TRUE, "Yes")

\* delete_selected_query (lines 1764-1792) with the i-th query selected
delete_selected_query(i, reply) ==
    /\ sq.query_to_apply = NoQuery
    /\ i \in 1..Len(sq.saved_queries)
    /\ IF reply # "Yes"
       THEN sq' = sq
       ELSE LET k == CHOOSE k \in 1..Len(sq.saved_queries) :
                         /\ sq.saved_queries[k].name = sq.saved_queries[i].name
                         /\ \A j \in 1..(k - 1) :
                                sq.saved_queries[j].name # sq.saved_queries[i].name
            IN  sq' = [ sq EXCEPT !.saved_queries = pop(@, k),
                                  !.queries_file = save_queries_to_disk(pop(sq.saved_queries, k)),
                                  !.result_area = "Query deleted" ]
    /\ UNCHANGED <<schedVars, ui, worker, req, fire, disk, auth, ds>>

\* load_queries_from_disk (lines 2084-2096)
load_queries_from_disk(s) ==
    IF s.queries_file.state = "ok"
    THEN [ s EXCEPT !.saved_queries = s.queries_file.entries ]
    ELSE s

\* on_tab_changed (lines 448-452): the first visit of the Saved Queries tab
on_tab_changed ==
    /\ sq.query_to_apply = NoQuery
    /\ ~ sq.saved_queries_loaded
    /\ sq' = [ load_queries_from_disk(sq) EXCEPT !.saved_queries_loaded = TRUE ]
    /\ UNCHANGED <<schedVars, ui, worker, req, fire, disk, auth, ds>>

\* load_selected_query and apply_saved_query (lines 1754-1817); what sq.applied recorded of
\* the load before is forgotten
apply_saved_query ==
    /\ sq.query_to_apply = NoQuery
    /\ \E i \in 1..Len(sq.saved_queries) :
          /\ ui' = [ clear_selections(ui) EXCEPT
                         !.measure_rows = SubSeq(@, 1, 1),
                         !.current_datasource_luid = sq.saved_queries[i].datasource_luid ]
          /\ sq' = [ sq EXCEPT !.query_to_apply = sq.saved_queries[i],
                               !.applied = NoQuery,
                               !.result_area = "All selections and filters have been reset." ]
    /\ UNCHANGED <<schedVars, worker, req, fire, disk, auth, ds>>

\* the items of the aggregation dropdown of a measure row (line 1349)
agg_dropdown_items == <<"SUM", "MIN", "MAX", "AVG">>

\* lines 1832-1851: rows are added until there is one per saved measure, then each
\* row takes the field and the aggregation of its measure when the dropdown has them
apply_measures(rows, measures) ==
    [ i \in 1..(IF Len(rows) < Len(measures) THEN Len(measures) ELSE Len(rows)) |->
        LET r == IF i <= Len(rows) THEN rows[i] ELSE [ field |-> "Select Measure", agg |-> "SUM" ]
        IN  IF i <= Len(measures)
            THEN [ field |-> IF measures[i].field \in MeasureItems THEN measures[i].field
                             ELSE r.field,
                   agg |-> select_text(r.agg, agg_dropdown_items, measures[i].agg) ]
            ELSE r ]

\* lines 1826-1830: the items of dimensions_list that the query names are selected
apply_dimensions(selected, dimensions) ==
    SelectSeq(DimensionItems, LAMBDA d : d \in items_of(selected) \cup items_of(dimensions))

\* apply_saved_query_after_fetch (lines 1819-1909); sq.applied records the query
\* and whether line 1909 was reached
apply_saved_query_after_fetch ==
    /\ sq.query_to_apply # NoQuery
    /\ \E answers \in [ 1..MaxSavedFilters -> FetchAnswers ] :
           ui' = [ ui EXCEPT !.dimensions = apply_dimensions(@, sq.query_to_apply.dimensions),
                             !.measure_rows = apply_measures(@, sq.query_to_apply.measures),
                             !.active_filters =
                                 recreate_filters(sq.query_to_apply.filters, answers, 1) ]
    /\ sq' = IF recreate_aborted(sq.query_to_apply.filters)
             THEN [ sq EXCEPT !.applied = [ query |-> sq.query_to_apply, completed |-> FALSE ] ]
             ELSE [ sq EXCEPT !.applied = [ query |-> sq.query_to_apply, completed |-> TRUE ],
                              !.query_to_apply = NoQuery,
                              !.result_area = "Query loaded" ]
    /\ UNCHANGED <<schedVars, worker, req, fire, disk, auth, ds>>

InitFilter ==
    /\ schedules = <<>>
    /\ file = AbsentFile
    /\ jobs = {}
    /\ pc = "idle"
    /\ cur = NoCall
    /\ status = ""
    /\ lastSave = NoSave
    /\ loadLog = [ done |-> TRUE, caught |-> FALSE ]
    /\ runs = 1
    /\ worker = WorkerInit
    /\ req = ReqInit
    /\ fire = FireInit
    /\ disk = DiskInit
    /\ auth = AuthInit
    /\ ds = DsInit
    /\ \/ /\ \E w \in FilterWidgetStates :
                 ui = [ InitUi EXCEPT !.current_datasource_luid = "ds1", !.active_filters = << w >> ]
          /\ sq = SqInit
       \/ /\ ui = InitUi
          /\ \E q \in SavedQueriesOnDisk :
                 sq = [ SqInit EXCEPT !.saved_queries = << q >>,
                                      !.queries_file = [ state |-> "ok", entries |-> << q >> ] ]

\* the texts typed into an input of a NumberFilterWidget that are explored
NumberTexts == { "", "5", "-" }

\* the inputs of a NumberFilterWidget
NumberInputs == { "min_input", "max_input", "min_only_input", "max_only_input" }

\* the user picks an item of filter_type_combo of the first filter, a NumberFilterWidget
number_set_filter_type ==
    /\ \E t \in 0..4 : ui' = [ ui EXCEPT !.active_filters[1].filter_type_combo = t ]
    /\ UNCHANGED <<schedVars, worker, req, otherVars>>

\* the user edits one of the four inputs
number_edit_input ==
    /\ \E k \in NumberInputs, t \in NumberTexts :
           ui' = [ ui EXCEPT !.active_filters[1] = (k :> t) @@ @ ]
    /\ UNCHANGED <<schedVars, worker, req, otherVars>>

InitNumber ==
    /\ schedules = <<>>
    /\ file = AbsentFile
    /\ jobs = {}
    /\ pc = "idle"
    /\ cur = NoCall
    /\ status = ""
    /\ lastSave = NoSave
    /\ loadLog = [ done |-> TRUE, caught |-> FALSE ]
    /\ runs = 1
    /\ worker = WorkerInit
    /\ req = ReqInit
    /\ fire = FireInit
    /\ disk = DiskInit
    /\ auth = AuthInit
    /\ ds = DsInit
    /\ ui = [ InitUi EXCEPT !.current_datasource_luid = "ds1",
                             !.active_filters = << NumberFilterWidget("Sales") >> ]
    /\ sq = SqInit

NextNumber ==
    \/ number_set_filter_type
    \/ number_edit_input
    \/ save_query

SpecNumber == InitNumber /\ [][NextNumber]_vars

\* the number of saved queries that is explored
MaxSavedQueries == 3

\* the names typed into the "Save Query" dialog that are explored
QueryNameTexts == { <<"q">>, <<"Q">>, <<" ", "q">>, <<" ">> }

SaveQuery ==
    /\ Len(sq.saved_queries) < MaxSavedQueries
    /\ \E name_text \in QueryNameTexts, ok \in BOOLEAN, reply \in Replies :
           save_query_as(name_text, ok, reply)

DeleteSelectedQuery ==
    \E i \in 1..Len(sq.saved_queries), reply \in Replies : delete_selected_query(i, reply)

NextSaved ==
    \/ on_datasource_selected
    \/ select_dimension
    \/ SaveQuery
    \/ DeleteSelectedQuery
    \/ on_tab_changed

SpecSaved == Init /\ [][NextSaved]_vars

----------------------------------------------------------------------------
(* fetch_available_datasources (lines 1217-1271): one GET per turn of the loop.
   ds.server is the list of datasources the server has; the pages the server
   sends hold ServerPageSize entries each. *)

\* entries on a page the server sends
ServerPageSize == 1

\* page numbers from MaxPageNum on are beyond the last page: of them ds keeps
\* only whether the number is odd
MaxPageNum == 5

\* the lists of (name, luid) pairs a server can have
ServerLists ==
    { <<>>, << <<"Sales", "ds1">> >>, << <<"Sales", "ds1">>, <<"Costs", "ds2">> >>,
      << <<"Sales", "ds1">>, <<"Costs", "ds2">>, <<"Staff", "ds3">> >>,
      << <<"Sales", "ds1">>, <<"Costs", "ds2">>, <<"Staff", "ds3">>, <<"Stock", "ds4">> >> }

\* the entries of page p
page_of(server, p) ==
    SubSeq(server, (p - 1) * ServerPageSize + 1,
           IF p * ServerPageSize < Len(server) THEN p * ServerPageSize ELSE Len(server))

\* what a GET can bring: the page with its pagination element, a page without
\* entries, the page without a pagination element, another status, a body that
\* does not parse
PageAnswers == { "page", "empty", "no pagination", "status", "ParseError" }

\* line 1263
next_page(p) == IF p < MaxPageNum THEN p + 1 ELSE p

\* lines 1218-1230
fetch_available_datasources_call ==
    /\ ds.pc = "idle"
    /\ ds' = IF ds.site_id = ""
             THEN [ ds EXCEPT !.pc = "done", !.returned = [ list |-> <<>> ] ]
             ELSE [ ds EXCEPT !.pc = "get", !.page_num = 1, !.odd = TRUE,
                              !.all_datasources = <<>> ]
    /\ UNCHANGED <<schedVars, ui, worker, req, fire, disk, auth, sq>>

\* one turn of the loop of lines 1231-1267, and lines 1269-1270 when it is left
fetch_available_datasources_get ==
    /\ ds.pc = "get"
    /\ \E answer \in PageAnswers :
          LET page_datasources == IF answer \in { "page", "no pagination" }
                                  THEN page_of(ds.server, ds.page_num) ELSE <<>>
              collected == ds.all_datasources \o page_datasources
              total_available == Len(ds.server)
          IN  IF answer \in { "status", "ParseError" }
              THEN ds' = [ ds EXCEPT !.pc = "done",
                                     !.returned = [ list |-> ds.all_datasources ] ]
              ELSE IF answer = "no pagination" \/ Len(collected) >= total_available
              THEN ds' = [ ds EXCEPT !.pc = "done", !.all_datasources = collected,
                                     !.returned = [ list |-> collected ] ]
              ELSE ds' = [ ds EXCEPT !.all_datasources = collected,
                                     !.page_num = next_page(@),
                                     !.odd = ~ @ ]
    /\ UNCHANGED <<schedVars, ui, worker, req, fire, disk, auth, sq>>

InitPages ==
    /\ schedules = <<>>
    /\ file = AbsentFile
    /\ jobs = {}
    /\ pc = "idle"
    /\ cur = NoCall
    /\ status = ""
    /\ ui = InitUi
    /\ lastSave = NoSave
    /\ loadLog = [ done |-> TRUE, caught |-> FALSE ]
    /\ runs = 1
    /\ worker = WorkerInit
    /\ req = ReqInit
    /\ fire = FireInit
    /\ disk = DiskInit
    /\ auth = AuthInit
    /\ sq = SqInit
    /\ \E server \in ServerLists, site_id \in { "", "site" } :
           ds = [ DsInit EXCEPT !.server = server, !.site_id = site_id ]

NextPages ==
    \/ fetch_available_datasources_call
    \/ fetch_available_datasources_get

SpecPages == InitPages /\ [][NextPages]_vars

\* the loop runs on: a turn that can be taken is taken
SpecPagesLive == SpecPages /\ WF_vars(NextPages)

----------------------------------------------------------------------------
(* Specification of the cadences: one schedule is saved and saved again with
   every frequency, every weekday and every day of the month, the first measure
   row and one filter change in between, and the application is restarted *)

\* day_of_week.currentIndex() and day_of_month.value() (lines 468-475)
WeekdayIndexes == 0..6
DaysOfMonth == 1..31

SaveScheduleCadence ==
    /\ \E f \in Frequencies, dow \in WeekdayIndexes, dom \in DaysOfMonth :
           /\ f = "Daily" => dow = 0 /\ dom = 1
           /\ f = "Weekly" => dom = 1
           /\ f = "Monthly" => dow = 0
           /\ save_schedule(<<" ", "c">>, <<"{name}">>, "/out", f, 8, 0, dow, dom)
    /\ UNCHANGED <<worker, req, otherVars>>

NextCadence ==
    \/ SaveScheduleCadence
    \/ SaveRemoveOldStep
    \/ SaveAddJobStep
    \/ SavePersistStep
    \/ select_measure
    \/ RestartApp

SpecCadence == Init /\ [][NextCadence]_vars

NextFilter ==
    \/ save_query
    \/ apply_saved_query
    \/ apply_saved_query_after_fetch

SpecFilter == InitFilter /\ [][NextFilter]_vars

----------------------------------------------------------------------------
(* Claims about startup replay *)

\* an entry from which a trigger can be made
valid_entry(e) ==
    /\ is_dict(e)
    /\ { "name", "frequency", "hour", "minute" } \subseteq DOMAIN e
    /\ e.frequency \in Frequencies
    /\ e.hour \in 0..23
    /\ e.minute \in 0..59
    /\ (e.frequency = "Weekly" => "day_of_week" \in DOMAIN e /\ e.day_of_week \in 0..6)
    /\ (e.frequency = "Monthly" => "day_of_month" \in DOMAIN e /\ e.day_of_month \in 1..31)

\* the cron fields of a valid entry
entry_cron(e) ==
    IF e.frequency = "Weekly"
    THEN [ day_of_week |-> e.day_of_week, hour |-> e.hour, minute |-> e.minute ]
    ELSE IF e.frequency = "Monthly"
    THEN [ day |-> e.day_of_month, hour |-> e.hour, minute |-> e.minute ]
    ELSE [ hour |-> e.hour, minute |-> e.minute ]

\* i is the last valid entry of the list with its job id
last_with_id(list, i) ==
    \A k \in (i + 1)..Len(list) :
        valid_entry(list[k]) => job_id(list[k].name) # job_id(list[i].name)

----------------------------------------------------------------------------
(* Claims about what is live and what is on disk *)

\* the job ids derived from the entries of saved_schedules.json
file_job_ids ==
    IF file.state = "ok"
    THEN { job_id(file.entries[i].name) : i \in 1..Len(file.entries) }
    ELSE {}

\* C4: after a later start of the application has finished its replay, the ids
\* of the live triggers are exactly the ids derived from saved_schedules.json.
C4_LiveIdsAreFileIds ==
    (loadLog.done /\ runs > 1) => { j.id : j \in jobs } = file_job_ids

\* C8: whenever save_schedule or remove_schedule returns after its steps, the
\* content of saved_schedules.json is the in-memory list.
C8_FileEqualsListOnReturn ==
    [][(pc # "idle" /\ pc' = "idle") => file' = written_file(schedules')]_vars

----------------------------------------------------------------------------
(* Claims about QueryWorker *)

\* C3: no signal of a QueryWorker is sent while its is_cancelled is set.
C3_NoSignalAfterCancel ==
    \A i \in 1..Len(worker.signals) : ~ worker.signals[i].cancelled

----------------------------------------------------------------------------
(* Claims about the stored definition *)

\* what the stored entries denote while the live selection is sel
stored_definition(list, sel) ==
    [ i \in 1..Len(list) |->
        [ list[i] EXCEPT !.filters = [ k \in 1..Len(@) |-> filter_value(@[k], sel) ] ] ]

\* C9: a change of the live selection (datasource, dimensions, measures, filter
\* widgets) leaves what the entries of self.schedules denote, and the triggers
\* with their kwargs, as they were.
C9_StoredDefinitionIsASnapshot ==
    [][(ui' # ui) => /\ stored_definition(schedules', ui') = stored_definition(schedules, ui)
                     /\ jobs' = jobs]_vars

\* a schedule saved with a filter value selected, and the filter gone from the selection
C9_Witness ==
    /\ pc = "idle"
    /\ Len(schedules) = 1
    /\ Len(schedules[1].filters) = 1
    /\ filter_value(schedules[1].filters[1], ui) = get_filter_dict([ field_name |-> "Region", selected |-> <<"East">> ])
    /\ ui.active_filters = <<>>
    /\ \E j \in jobs : j.kwargs.filters = << get_filter_dict([ field_name |-> "Region", selected |-> <<"East">> ]) >>

----------------------------------------------------------------------------
(* Claims about the request paths *)

\* the requests of the call that are not sign-ins
posts(log) == SelectSeq(log, LAMBDA e : e.op = "post")

\* C10: when a call of a request path has ended, every 401 answer to one of its
\* requests was followed by a sign-in and then by a further request, unless the
\* request was the third; and the call made at most three requests.
C10_Every401IsRetried ==
    req.pc = "done" =>
        /\ Len(posts(req.log)) <= Attempts
        /\ \A i \in 1..Len(req.log) :
               (req.log[i].op = "post" /\ req.log[i].status = 401) =>
                   /\ i < Len(req.log)
                   /\ req.log[i + 1].op = "sign_in"
                   /\ \/ Len(posts(SubSeq(req.log, 1, i))) = Attempts
                      \/ /\ i + 1 < Len(req.log)
                         /\ req.log[i + 2].op = "post"

----------------------------------------------------------------------------
(* Claims about the scheduled runs *)

FailureOutcomes == { "Error running scheduled query", "Query failed with status" }

\* run k ends in this step
ends_now(k) == fire'[k].pc = "done" /\ fire[k].pc # "done"

\* C11: a step in which a scheduled run ends in failure lets no exception out
\* of run_scheduled_query_standalone and leaves the schedule list, the file
\* of schedules and the jobs as they were.
C11_FailedRunTouchesNothing ==
    [][ \A k \in 1..Len(fire) :
           (ends_now(k) /\ fire'[k].outcome \in FailureOutcomes)
               => /\ ~ fire'[k].raised
                  /\ UNCHANGED <<schedules, file, jobs>> ]_vars

\* one run has failed and the run of the other schedule has succeeded after it
C11_Witness ==
    /\ Len(fire) = 2
    /\ fire[1].pc = "done" /\ fire[1].outcome = "Error running scheduled query"
    /\ fire[2].pc = "done" /\ fire[2].outcome = "Query completed successfully"
    /\ Cardinality(jobs) = 2

\* C12: when two runs that overlapped in time have both succeeded, the output
\* file of each holds exactly the header and the rows of that run.
C12_ConcurrentRunsKeepTheirFiles ==
    (/\ Len(fire) = 2
     /\ fire[2].overlapped
     /\ \A k \in 1..2 : fire[k].pc = "done" /\ fire[k].outcome = "Query completed successfully")
        => \A k \in 1..2 :
               file_at(disk, fire[k].path) = [ exists |-> TRUE, content |-> export_rows(k, fire[k].records) ]

\* C14: when a run has ended with no results, its output path holds what it
\* held before the run: no file was created or truncated.
C14_NoResultsLeavesNoFile ==
    \A k \in 1..Len(fire) :
        (fire[k].pc = "done" /\ fire[k].outcome = "Query completed but returned no results")
            => file_at(disk, output_path(fire[k].schedule)) = fire[k].had

\* C15: when the only run has ended because a step raised, its output path
\* holds the header and one row per record, or what it held before the run.
C15_ExportIsAllOrNothing ==
    (Len(fire) = 1 /\ fire[1].pc = "done" /\ fire[1].outcome = "Error running scheduled query"
        /\ fire[1].path # <<>>)
        => \/ file_at(disk, fire[1].path) = [ exists |-> TRUE, content |-> export_rows(1, fire[1].records) ]
           \/ file_at(disk, fire[1].path) = fire[1].had

----------------------------------------------------------------------------
(* Claims about the cached token *)

\* the tokens that successful sign-ins have obtained
obtained == { auth.calls[k].got : k \in { i \in 1..Len(auth.calls) : auth.calls[i].pc \in { "assign", "done" } } }

\* C13: in every step the cached token stays what it was or becomes the token
\* one successful sign-in obtained; a step in which a sign-in fails leaves it
\* unchanged; and what a reader has seen is the initial value or such a token.
C13_TokenIsReplacedWhole ==
    [][ /\ auth'.token # auth.token => auth'.token \in obtained
        /\ (\E k \in 1..Len(auth.calls) : auth.calls[k].pc = "post" /\ auth'.calls[k].pc = "failed")
              => auth'.token = auth.token
        /\ auth'.seen \in { 0 } \cup obtained ]_vars

\* the timer's sign-in and a reactive one have both succeeded, a third has
\* failed, and the token is the one of the sign-in that was answered first
C13_Witness ==
    /\ Len(auth.calls) = 3
    /\ auth.calls[1].who = "reauth_timer" /\ auth.calls[1].pc = "done"
    /\ auth.calls[2].who = "fetch_fields" /\ auth.calls[2].pc = "done"
    /\ auth.calls[3].pc = "failed"
    /\ auth.token = 1
    /\ auth.issued = 2

----------------------------------------------------------------------------
(* Claims about validation *)

\* C16: a save_schedule call whose name or pattern is empty, or whose output
\* directory does not exist or cannot be written to, leaves the list, the
\* file and the jobs as they were and ends at once.
C16_InvalidFormChangesNothing ==
    [][ (\E t \in { <<" ">>, <<" ", "c">> }, p \in PatternTexts, d \in ValidationDirs, f \in Frequencies :
            /\ save_schedule(t, p, d, f, 8, 0, 6, 31)
            /\ \/ strip(t) = <<>>
               \/ strip(p) = <<>>
               \/ ~ isdir(d)
               \/ ~ writable(d))
        => (UNCHANGED <<schedules, file, jobs>> /\ pc' = "idle") ]_vars

----------------------------------------------------------------------------
(* Claims about the payloads *)

\* every payload sent so far, by the UI thread and by the scheduled runs
payloads_sent ==
    { sq.sent[i].payload : i \in 1..Len(sq.sent) }
        \cup UNION { { fire[k].sent[i] : i \in 1..Len(fire[k].sent) } : k \in 1..Len(fire) }

\* C17: no payload has been sent whose datasource id is missing or empty.
C17_NoPayloadWithoutDatasource ==
    \A p \in payloads_sent : p.datasourceLuid \notin { None, "" }

\* C18: every payload sent by the UI thread from a selection of more than 10
\* dimensions lists exactly the first 10 of them, in order, before the
\* measures, and the call has shown a TooManyDimensions warning.
C18_FirstTenDimensionsAndWarning ==
    \A i \in 1..Len(sq.sent) :
        Len(sq.sent[i].selected) > DimensionLimit =>
            /\ Len(sq.sent[i].payload.fields) >= DimensionLimit
            /\ SubSeq(sq.sent[i].payload.fields, 1, DimensionLimit)
                   = dimension_fields(SubSeq(sq.sent[i].selected, 1, DimensionLimit))
            /\ \A k \in (DimensionLimit + 1)..Len(sq.sent[i].payload.fields) :
                   "function" \in DOMAIN sq.sent[i].payload.fields[k]
            /\ "TooManyDimensions" \in sq.sent[i].shown

----------------------------------------------------------------------------
(* Claims about saved queries and their filters *)

\* the dicts of the widgets of the Filters tab
active_filter_dicts ==
    [ i \in 1..Len(ui.active_filters) |-> widget_get_filter_dict(ui.active_filters[i]) ]

\* the query that was applied was written by save_query from widgets
written_by_widgets(query) ==
    \A i \in 1..Len(query.filters) :
        query.filters[i] \in { widget_get_filter_dict(w) : w \in FilterWidgetStates }

\* C19: when a query whose filters were written by get_filter_dict of the
\* widgets (SET, QUANTITATIVE_NUMERICAL, QUANTITATIVE_DATE and relative DATE in
\* each of their modes) has been applied by apply_saved_query_after_fetch, the
\* dicts of the recreated widgets equal the dicts of the saved query.
C19_FilterRoundTrip ==
    ("query" \in DOMAIN sq.applied /\ written_by_widgets(sq.applied.query))
        => active_filter_dicts = sq.applied.query.filters

\* the same for the filters whose widget is a NumberFilterWidget or a DateFilterWidget
C19_NumberAndDateRoundTrip ==
    ("query" \in DOMAIN sq.applied /\ written_by_widgets(sq.applied.query))
        => \A i \in 1..Len(sq.applied.query.filters) :
               sq.applied.query.filters[i].filterType # "SET"
                   => /\ Len(ui.active_filters) = Len(sq.applied.query.filters)
                      /\ active_filter_dicts[i] = sq.applied.query.filters[i]

\* the class of the widget line 1876-1884 makes for an entry
entry_kind(filter_dict) ==
    IF filter_dict.filterType \in { "QUANTITATIVE_DATE", "DATE" } THEN "Date"
    ELSE IF filter_dict.filterType = "QUANTITATIVE_NUMERICAL" THEN "Number"
    ELSE "String"

\* an entry that is skipped: it is no object, its field is none or has no
\* caption, or its filterType is none of the four
skipped_entry(filter_dict) ==
    \/ ~ is_dict(filter_dict)
    \/ "field" \notin DOMAIN filter_dict
    \/ "fieldCaption" \notin DOMAIN filter_dict.field
    \/ "filterType" \notin DOMAIN filter_dict
    \/ filter_dict.filterType \notin { "QUANTITATIVE_DATE", "DATE", "QUANTITATIVE_NUMERICAL", "SET" }

\* the entries of a list that are not skipped, in the order of the list
other_entries(filters) == SelectSeq(filters, LAMBDA e : ~ skipped_entry(e))

\* C20: when apply_saved_query_after_fetch has handled a saved query, it has run
\* to its end, and the widgets of the Filters tab are, in saved order, one widget
\* of the class and the field of every entry that is not skipped; an entry with
\* an unknown filterType, without a field caption or that is no object has none.
C20_BadEntriesAreSkipped ==
    "query" \in DOMAIN sq.applied =>
        /\ sq.applied.completed
        /\ sq.query_to_apply = NoQuery
        /\ LET others == other_entries(sq.applied.query.filters)
           IN  /\ Len(ui.active_filters) = Len(others)
               /\ \A i \in 1..Len(others) :
                      /\ ui.active_filters[i].kind = entry_kind(others[i])
                      /\ ui.active_filters[i].field_name = others[i].field.fieldCaption

\* a query of two entries was applied: the first raised, the second has a widget
C20_Witness ==
    /\ "query" \in DOMAIN sq.applied
    /\ Len(sq.applied.query.filters) = 2
    /\ entry_raises(sq.applied.query.filters[1])
    /\ ~ skipped_entry(sq.applied.query.filters[2])
    /\ Len(ui.active_filters) = 1

----------------------------------------------------------------------------
(* Claims about the dict of a numeric filter *)

\* the text of the minimum input of the selected mode, "" when the mode has none
min_text(w) ==
    IF w.filter_type_combo = 0 THEN w.min_input
    ELSE IF w.filter_type_combo = 1 THEN w.min_only_input ELSE ""

\* the text of the maximum input of the selected mode, "" when the mode has none
max_text(w) ==
    IF w.filter_type_combo = 0 THEN w.max_input
    ELSE IF w.filter_type_combo = 2 THEN w.max_only_input ELSE ""

\* save_query has stored the dict of the numeric filter in this step
saves_number_filter ==
    /\ save_query
    /\ sq'.result_area \in { "Query saved", "Query updated" }
    /\ sq'.saved_queries # sq.saved_queries
    /\ Len(ui.active_filters) = 1

\* C21: whenever get_filter_dict of a numeric filter returns a dict, the dict has
\* the key "min" exactly when the minimum input of the selected mode holds a text
\* and the key "max" exactly when the maximum input of the selected mode holds a
\* text; the values are the floats of the texts, and an unset bound is no key.
C21_BoundKeysIffSet ==
    [][ saves_number_filter =>
            LET w == ui.active_filters[1]
                d == sq'.saved_queries[1].filters[1]
            IN  /\ ("min" \in DOMAIN d) <=> (min_text(w) # "")
                /\ ("max" \in DOMAIN d) <=> (max_text(w) # "")
                /\ "min" \in DOMAIN d => d.min = float(min_text(w))
                /\ "max" \in DOMAIN d => d.max = float(max_text(w)) ]_vars

\* the filter was saved in mode MIN with the minimum 5: min is 5.0 and max is no key
C21_Witness ==
    /\ Len(sq.saved_queries) = 1
    /\ Len(sq.saved_queries[1].filters) = 1
    /\ sq.saved_queries[1].filters[1].quantitativeFilterType = "MIN"
    /\ "min" \in DOMAIN sq.saved_queries[1].filters[1]
    /\ sq.saved_queries[1].filters[1].min = [ float |-> "5.0" ]
    /\ "max" \notin DOMAIN sq.saved_queries[1].filters[1]

----------------------------------------------------------------------------
(* Claims about the name of the output file *)

\* a pattern with {name}, {date} and {time} replaced and every other text kept
RECURSIVE replaced(_, _)
replaced(pattern, name) ==
    IF pattern = <<>> THEN <<>>
    ELSE (IF Head(pattern) = "{name}" THEN name
          ELSE IF Head(pattern) = "{date}" THEN <<"2026-11-02">>
          ELSE IF Head(pattern) = "{time}" THEN <<"08-00-00">>
          ELSE << Head(pattern) >>) \o replaced(Tail(pattern), name)

\* the text with ".csv" at its end
ends_with_csv(text) ==
    IF text # <<>> /\ text[Len(text)] = ".csv" THEN text ELSE Append(text, ".csv")

\* C22: whenever a scheduled run derives its file name, the derivation succeeds
\* and the path is the output directory with the pattern in which {name}, {date}
\* and {time} are replaced, all other text is kept and ".csv" is at the end.
C22_FileNameFromPattern ==
    [][ \A k \in 1..Len(fire) :
            (fire[k].pc = "filename" /\ fire'[k].pc # "filename") =>
                /\ fire'[k].pc = "open"
                /\ fire'[k].path =
                       << fire[k].schedule.output_dir >>
                           \o ends_with_csv(replaced(fire[k].schedule.output_pattern,
                                                     fire[k].schedule.name)) ]_vars

----------------------------------------------------------------------------
(* Claims about the saved queries *)

\* no two queries of the list have the same name
names_unique(list) ==
    \A i \in 1..Len(list), j \in 1..Len(list) : i # j => list[i].name # list[j].name

\* the indexes of the queries of the list with the name
named(list, name) == { i \in 1..Len(list) : list[i].name = name }

\* C23: after every step the names of the saved queries are pairwise different;
\* a save_query under a name that the list holds leaves the list as it is when the
\* overwrite is declined, and when it is confirmed it replaces the query of that
\* name and no other.
C23_SavedNamesAreUnique ==
    [][ /\ names_unique(sq'.saved_queries)
        /\ \A t \in QueryNameTexts :
               named(sq.saved_queries, strip(t)) # {} =>
                   /\ save_query_as(t, TRUE, "No") => sq'.saved_queries = sq.saved_queries
                   /\ (save_query_as(t, TRUE, "Yes") /\ ui.current_datasource_luid # None) =>
                          /\ Len(sq'.saved_queries) = Len(sq.saved_queries)
                          /\ \A k \in 1..Len(sq.saved_queries) :
                                 IF k \in named(sq.saved_queries, strip(t))
                                 THEN /\ sq'.saved_queries[k].name = strip(t)
                                      /\ sq'.saved_queries[k].dimensions = ui.dimensions
                                 ELSE sq'.saved_queries[k] = sq.saved_queries[k] ]_vars

\* two queries are saved and the one named "q" was overwritten after the other was saved
C23_Witness ==
    /\ Len(sq.saved_queries) = 2
    /\ sq.saved_queries[1].name = <<"q">>
    /\ sq.saved_queries[2].name = <<"Q">>
    /\ sq.result_area = "Query updated"
    /\ sq.saved_queries[1].dimensions # sq.saved_queries[2].dimensions

\* C27: whenever save_query or delete_selected_query changes the list of saved
\* queries, saved_queries.json holds the dump of the new list when the call returns.
C27_QueriesFileEqualsList ==
    [][ (sq'.saved_queries # sq.saved_queries
            /\ sq'.saved_queries_loaded = sq.saved_queries_loaded)
        => sq'.queries_file = written_file(sq'.saved_queries) ]_vars

----------------------------------------------------------------------------
(* Claims about fetch_available_datasources *)

\* C24: when fetch_available_datasources has returned after at least one request,
\* the list it returned holds every datasource of every page of the server.
C24_AllPagesAggregated ==
    (ds.pc = "done" /\ ds.site_id # "") => ds.returned.list = ds.server

\* C29: every call of fetch_available_datasources returns.
C29_FetchDatasourcesTerminates == (ds.pc = "get") ~> (ds.pc = "done")

\* the trigger that startup replay creates from an entry of the file
replayed_job(e) == recreate_schedule_job({}, e).jobs

\* the entry of the file that holds the schedule of a trigger
persisted_entry(j) ==
    { file.entries[i] : i \in { k \in 1..Len(file.entries) : file.entries[k].name = j.name } }

\* C25: at every start of the application, every trigger that save_schedule
\* created has a persisted entry, and the trigger that replay creates from that
\* entry has the same job id, the same cron fields and, as its schedule
\* definition, the JSON form of the definition of the trigger save_schedule
\* created (the measures are arrays where they were tuples); these triggers are
\* the triggers of the scheduler after the start.
C25_ReplayRecreatesSavedTrigger ==
    [][ RestartApp =>
          /\ \A j \in jobs :
                /\ persisted_entry(j) # {}
                /\ \A e \in persisted_entry(j) :
                      replayed_job(e) = { [ id      |-> j.id,
                                           name    |-> j.name,
                                           trigger |-> j.trigger,
                                           kwargs  |-> json_entry(j.kwargs) ] }
          /\ jobs' = UNION { replayed_job(file.entries[i]) : i \in 1..Len(file.entries) } ]_vars

\* a weekly schedule for Sunday with the measure Sales was saved and the
\* application was started again
C25_Witness ==
    /\ runs = 2
    /\ pc = "idle"
    /\ \E j \in jobs :
          /\ j.trigger = [ day_of_week |-> 6, hour |-> 8, minute |-> 0 ]
          /\ j.kwargs.measures = << [ py |-> "list", field |-> "Sales", agg |-> "SUM" ] >>

\* C26: the schedules of the list that have different names have different job
\* ids, and a step of save_schedule or remove_schedule on one schedule leaves
\* the trigger of every schedule of another name in the scheduler.
C26_JobIdsAreDistinct ==
    [][ /\ \A i, k \in 1..Len(schedules') :
              schedules'[i].name # schedules'[k].name
                  => job_id(schedules'[i].name) # job_id(schedules'[k].name)
        /\ pc \in { "save_remove_old", "save_add_job", "remove_job" }
              => \A j \in jobs : j.name # cur.name => j \in jobs' ]_vars

\* C28: when load_schedules_from_disk has run on a file that json.load parses,
\* the list in memory is the list of the file, and every trigger of the
\* scheduler has an entry of its name in the list.
C28_LoadedListEqualsFile ==
    (loadLog.done /\ file.state = "ok")
        => /\ schedules = file.entries
           /\ \A j \in jobs : \E i \in 1..Len(schedules) : schedules[i].name = j.name

\* the metadata requests of the call of fetch_fields under way
metadata_posts == posts(req.log)

====
